---- MODULE Spec2Model ----
(***************************************************************************)
(* Model of the tutoring pipeline of samrathreddy/Tutor-agent:             *)
(*   TutorAgent.process_question   (backend/agents/tutor_agent.py)         *)
(*   MathAgent / PhysicsAgent      (backend/agents/*_agent.py)             *)
(*   Calculator, PhysicsConstants, KnowledgeBase (backend/tools)           *)
(*   GeminiClient, MongoDB         (backend/utils)                         *)
(*                                                                         *)
(* A request is a slot r with a program counter pc[r]; every action is one *)
(* step of the Python code between two blocking calls.  Python exceptions  *)
(* are values: an operation yields [exc |-> "none", value |-> v] or        *)
(* [exc |-> <exception class>].  Text returned by the generation service   *)
(* is represented by what json.loads makes of the block the regular        *)
(* expression of parse_json_response cuts out of it.  Confidences are      *)
(* fixed-point numbers, 10000 standing for 1.0.                            *)
(***************************************************************************)
EXTENDS Integers, Sequences, FiniteSets, TLC

\* ------------------------------------------------------------------ bounds
\* Requests served in one behaviour.
MaxRequests == 1
\* Conversations that can be created (fresh ObjectIds).
MaxConvs == 2

\* Messages of the conversation the store holds when the service starts.
MaxStored == 8
\* Calls of parse_json_response made on one text.
MaxParses == 2
\* Calls made on the tools in one behaviour of the tools alone.
MaxToolCalls == 2

\* Request slots: the requests that can be in flight at once.
Requests == {1, 2}
ConvIds == 1..MaxConvs
Users == {"u1", "u2"}

\* ------------------------------------------------------------ JSON values
JNull == [t |-> "null"]
JBool(b) == [t |-> "bool", b |-> b]
JNum(n) == [t |-> "num", n |-> n]
JStr(s) == [t |-> "str", s |-> s]
JList(n) == [t |-> "list", len |-> n]

\* Python truth value of a decoded JSON value.
Truthy(v) ==
    CASE v.t = "null" -> FALSE
      [] v.t = "bool" -> v.b
      [] v.t = "num" -> v.n # 0
      [] v.t = "str" -> v.s # ""
      [] v.t = "list" -> v.len > 0
      [] OTHER -> TRUE

\* Outcomes of an operation that may raise.
Ret(v) == [exc |-> "none", value |-> v]
Raise(e) == [exc |-> e]

\* --------------------------------------------------- decoded generation text
\* What json.loads yields for the extracted block of a generated text:
\*   garbage : json.loads raises JSONDecodeError
\*   scalar  : a number, true/false or null (no braces in the text)
\*   seq     : a JSON list or string (no braces); names = the field names it holds
\*   obj     : a JSON object with the given keys and values
TGarbage == [kind |-> "garbage"]
TScalar == [kind |-> "scalar"]
TSeq(names) == [kind |-> "seq", names |-> names]
TObj(f) == [kind |-> "obj", keys |-> DOMAIN f, val |-> f]

IsDict(x) == x.kind = "obj"
DictGet(d, k, default) == IF k \in d.keys THEN d.val[k] ELSE default
\* `not x` for a decoded value that reached the caller (a dict or a list/str).
Falsy(x) ==
    CASE x.kind = "obj" -> x.keys = {}
      [] x.kind = "seq" -> x.names = {}
      [] OTHER -> FALSE

\* GeminiClient.parse_json_response: the block is parsed; a JSONDecodeError
\* becomes ValueError; `key in result` raises TypeError on a scalar and is a
\* membership test on a list or string; a missing field raises ValueError.
parse_json_response(text, required_fields) ==
    CASE text.kind = "garbage" -> Raise("ValueError")
      [] text.kind = "scalar" ->
           IF required_fields # {} THEN Raise("TypeError") ELSE Ret(text)
      [] text.kind = "seq" ->
           IF required_fields \subseteq text.names THEN Ret(text) ELSE Raise("ValueError")
      [] OTHER ->
           IF required_fields \subseteq text.keys THEN Ret(text) ELSE Raise("ValueError")

\* ---------------------------------------------------------- response text
\* The text of a response, for the regular expression of parse_json_response
\* and for json.loads, is a sequence of tokens:
\*   "{" "}" ","  : themselves
\*   "a" "b"      : the members  "a": 1  and  "b": 2  of an object
\*   "n"          : a number
\*   " "          : whitespace (blanks, newlines)
\*   "w"          : a word of prose
\*   "f"          : a code fence line (three backquotes, with or without json)
Tokens == {"{", "}", ",", "a", "b", "n", " ", "w", "f"}
MemberValue(k) == IF k = "a" THEN JNum(1) ELSE JNum(2)

Positions(response, tok) == {i \in 1..Len(response) : response[i] = tok}
First(S) == CHOOSE i \in S : \A j \in S : i <= j
Last(S) == CHOOSE i \in S : \A j \in S : j <= i

\* parse_json_response, lines 144-148: re.search(r'(\{.*\})', response,
\* re.DOTALL) matches from the first opening brace that has a closing brace
\* after it to the last closing brace of the text; without a match the whole
\* text is parsed.
ExtractBlock(response) ==
    LET opens == Positions(response, "{")
        closes == Positions(response, "}")
    IN IF opens # {} /\ closes # {} /\ First(opens) < Last(closes)
       THEN SubSeq(response, First(opens), Last(closes))
       ELSE response

\* The tokens of a text other than whitespace.
RECURSIVE Solid(_)
Solid(ts) ==
    IF ts = <<>> THEN <<>>
    ELSE IF Head(ts) = " " THEN Solid(Tail(ts))
    ELSE <<Head(ts)>> \o Solid(Tail(ts))

\* member (, member)* or nothing
IsMemberList(ts) ==
    \/ ts = <<>>
    \/ /\ Len(ts) % 2 = 1
       /\ \A i \in 1..Len(ts) :
            IF i % 2 = 1 THEN ts[i] \in {"a", "b"} ELSE ts[i] = ","

\* json.loads (line 151) of a text: a number, an object of members, or a
\* JSONDecodeError; whitespace between tokens is insignificant.
json_loads(json_str) ==
    LET ts == Solid(json_str)
        inner == SubSeq(ts, 2, Len(ts) - 1)
    IN IF ts = <<"n">> THEN TScalar
       ELSE IF Len(ts) >= 2 /\ ts[1] = "{" /\ ts[Len(ts)] = "}" /\ IsMemberList(inner)
       THEN TObj([k \in {inner[i] : i \in {j \in 1..Len(inner) : j % 2 = 1}} |->
                     MemberValue(k)])
       ELSE TGarbage

\* GeminiClient.parse_json_response on the text of a response.
parse_json_text(response, required_fields) ==
    parse_json_response(json_loads(ExtractBlock(response)), required_fields)

\* A generation call: GeminiClient.generate_text raises GeminiAPIError on any
\* failure of the service, otherwise returns the text.
GenFail == [ok |-> FALSE]
GenText(t) == [ok |-> TRUE, text |-> t]
GenOutcomes(texts) == {GenFail} \cup {GenText(t) : t \in texts}


\* ----------------------------------------------------------- classification
ClassificationFields == {"subject", "confidence", "reasoning"}
ClassObj(s, c) == TObj([subject |-> s, confidence |-> c, reasoning |-> JStr("because")])

\* The default analysis of GeminiClient.analyze_question (0.5).
DefaultConfidence == 5000
DefaultClassification == ClassObj(JStr("general"), JNum(DefaultConfidence))

\* Subjects and confidences the generation service is taken to answer with.
SubjectValues ==
    {JStr("math"), JStr("Mathematics"), JStr("PHYSICS"), JStr("general"), JNull}
ConfidenceValues == {JNum(6999), JNum(7000), JNum(15000), JStr("high")}
ClassTexts ==
    {TGarbage, TScalar, TSeq(ClassificationFields),
     TObj([subject |-> JStr("math"), reasoning |-> JStr("because")])}
    \cup {ClassObj(s, c) : s \in SubjectValues, c \in ConfidenceValues}

\* str.lower() on the subjects above.
Lower(s) ==
    CASE s = "Mathematics" -> "mathematics"
      [] s = "PHYSICS" -> "physics"
      [] OTHER -> s

\* GeminiClient.analyze_question: GeminiAPIError is re-raised, every other
\* exception of the parse yields the default classification.
\* Mutant of analyze_question: a decoding failure is raised to the caller.
analyze_question_Raising(g) ==
    IF ~g.ok THEN Raise("GeminiAPIError")
    ELSE parse_json_response(g.text, ClassificationFields)

analyze_question(g) ==
    IF ~g.ok THEN Raise("GeminiAPIError")
    ELSE LET p == parse_json_response(g.text, ClassificationFields)
         IN IF p.exc = "none" THEN Ret(p.value) ELSE Ret(DefaultClassification)

\* The router's threshold 0.7.
ConfThreshold == 7000

\* Python's `confidence < 0.7`: defined on numbers (and bools), TypeError otherwise.
LessThan(v, n) ==
    CASE v.t = "num" -> Ret(v.n < n)
      [] v.t = "bool" -> Ret((IF v.b THEN 10000 ELSE 0) < n)
      [] OTHER -> Raise("TypeError")

\* The specialist table of TutorAgent.__init__.
SpecialistAgents == {"math", "physics"}
AgentName(agent_key) == IF agent_key = "math" THEN "Math Agent" ELSE "Physics Agent"

\* Mutant of TieBreak: the comparison with the threshold is inclusive.
TieBreak_Inclusive(confidence) ==
    LET c == LessThan(confidence, ConfThreshold + 1)
    IN IF c.exc # "none" THEN Raise(c.exc)
       ELSE Ret(IF c.value THEN "math" ELSE "physics")

\* The tie-break of the router for a subject with no specialist.
TieBreak(confidence) ==
    LET c == LessThan(confidence, ConfThreshold)
    IN IF c.exc # "none" THEN Raise(c.exc)
       ELSE Ret(IF c.value THEN "math" ELSE "physics")

\* Mutant of AliasKey: the keys of the two specialists are swapped.
AliasKey_Swapped(subject) ==
    IF subject = "mathematics" \/ subject = "math" THEN "physics"
    ELSE IF subject = "physics" THEN "math"
    ELSE "none"

\* Mutant of AliasKey: "mathematics" is not an alias.
AliasKey_MathOnly(subject) ==
    IF subject = "math" THEN "math"
    ELSE IF subject = "physics" THEN "physics"
    ELSE "none"

\* Subject aliases of the router.
AliasKey(subject) ==
    IF subject = "mathematics" \/ subject = "math" THEN "math"
    ELSE IF subject = "physics" THEN "physics"
    ELSE "none"

\* TutorAgent.process_question, from the check of the analysis to the lookup
\* of the specialist: the subject, the confidence and the agent key, or the
\* exception raised on the way.
SelectAgent(a) ==
    IF Falsy(a) \/ ~IsDict(a) THEN [exc |-> "Exception", msg |-> "Failed to analyze question"]
    ELSE LET sv == DictGet(a, "subject", JStr(""))
             confidence == DictGet(a, "confidence", JNum(0))
         IN IF sv.t # "str" THEN [exc |-> "AttributeError", msg |-> "no attribute lower"]
            ELSE LET subject == Lower(sv.s)
                     key == IF AliasKey(subject) # "none" THEN Ret(AliasKey(subject))
                            ELSE TieBreak(confidence)
                 IN IF key.exc # "none" THEN [exc |-> key.exc, msg |-> "not supported"]
                    ELSE IF key.value \notin SpecialistAgents
                         THEN [exc |-> "Exception", msg |-> "Specialist agent not found"]
                    ELSE [exc |-> "none", subject |-> subject, confidence |-> confidence,
                          agent_key |-> key.value]

\* ------------------------------------------------------------- conversation
None == [t |-> "None"]
NoConv == 0
Question == "q"
\* The router hands over at most the last 6 messages.
WindowSize == 6

\* Mutant of LastMessages: the window is taken from the old end.
LastMessages_Oldest(messages) ==
    IF Len(messages) > WindowSize THEN SubSeq(messages, 1, WindowSize) ELSE messages

LastMessages(messages) ==
    IF Len(messages) > WindowSize
    THEN SubSeq(messages, Len(messages) - WindowSize + 1, Len(messages))
    ELSE messages

CtxDict(cid, history) ==
    [t |-> "dict", keys |-> {"conversation_id", "conversation_history"},
     conversation_id |-> cid, conversation_history |-> history]
CtxEmpty == [t |-> "dict", keys |-> {}]
CtxFalsy(context) == context.t = "None" \/ context.keys = {}

WellFormed(m) == "role" \in DOMAIN m /\ "content" \in DOMAIN m
NoHistory == [header |-> FALSE, lines |-> <<>>]

\* BaseAgent._format_conversation_history: "" without a context or without
\* the key; else the header and one line per message; KeyError on a message
\* without role or content.
FormatHistory(context) ==
    IF CtxFalsy(context) \/ "conversation_history" \notin context.keys THEN Ret(NoHistory)
    ELSE LET h == context.conversation_history
         IN IF \E i \in 1..Len(h) : ~WellFormed(h[i]) THEN Raise("KeyError")
            ELSE Ret([header |-> TRUE,
                      lines |-> [i \in 1..Len(h) |->
                                  <<IF h[i].role = "user" THEN "User" ELSE "Assistant",
                                    h[i].content>>]])

\* `self._format_conversation_history(context) if context else ""` of the
\* synthesis helpers.
FormatIfContext(context) ==
    IF CtxFalsy(context) THEN Ret(NoHistory) ELSE FormatHistory(context)

\* -------------------------------------------------------------------- tools
\* BaseAgent.register_tool calls of the two constructors.
RegisteredTools(agent_key) ==
    IF agent_key = "math" THEN {"Calculator", "KnowledgeBase"}
    ELSE {"Calculator", "KnowledgeBase", "PhysicsConstants"}

\* BaseAgent.use_tool: ValueError for a tool that is not registered.
use_tool(agent_key, tool_name, result) ==
    IF tool_name \in RegisteredTools(agent_key) THEN Ret(result) ELSE Raise("ValueError")

\* Expressions sympy.sympify rejects, among those the analysis can name.
MalformedExpressions == {"x+"}

\* The class of the object sympy.sympify returns for an expression.
SympifyClass(s) ==
    CASE s = "1/3" -> "Rational"
      [] s = "0.5*3" -> "Float"
      [] s = "x" -> "Symbol"
      [] s = "x+1" -> "Add"
      [] s = "Matrix([[1, 2]])" -> "MutableDenseMatrix"
      [] s = "1 < 2" -> "BooleanTrue"
      [] OTHER -> "Integer"

\* The classes among Integer, Rational, Float, Symbol, Expr and Matrix that
\* an object of this class is an instance of.
Bases(class) ==
    CASE class = "Integer" -> {"Integer", "Rational", "Expr"}
      [] class = "Rational" -> {"Rational", "Expr"}
      [] class = "Float" -> {"Float", "Expr"}
      [] class = "Symbol" -> {"Symbol", "Expr"}
      [] class = "Add" -> {"Expr"}
      [] class = "MutableDenseMatrix" -> {"Matrix"}
      [] OTHER -> {}
IsInstance(result, class) == class \in Bases(result.class)

\* sympy.sympify(expression), calculator.py line 33.
sympify(expression) ==
    IF expression.t # "str" \/ expression.s \in MalformedExpressions
    THEN Raise("SympifyError")
    ELSE Ret([class |-> SympifyClass(expression.s), of |-> expression.s])

\* _determine_result_type with the test for Rational before the test for
\* Integer.
determine_result_type_RationalFirst(result) ==
    IF IsInstance(result, "Rational") THEN "fraction"
    ELSE IF IsInstance(result, "Integer") THEN "integer"
    ELSE IF IsInstance(result, "Float") THEN "decimal"
    ELSE IF IsInstance(result, "Symbol") THEN "symbol"
    ELSE IF IsInstance(result, "Expr") THEN "expression"
    ELSE IF IsInstance(result, "Matrix") THEN "matrix"
    ELSE "other"

\* Calculator._determine_result_type
determine_result_type(result) ==
    IF IsInstance(result, "Integer") THEN "integer"
    ELSE IF IsInstance(result, "Rational") THEN "fraction"
    ELSE IF IsInstance(result, "Float") THEN "decimal"
    ELSE IF IsInstance(result, "Symbol") THEN "symbol"
    ELSE IF IsInstance(result, "Expr") THEN "expression"
    ELSE IF IsInstance(result, "Matrix") THEN "matrix"
    ELSE "other"

\* Calculator._format_result: int(result) or float(result), the string
\* f"{result} ~ {decimal:.6g}", str(result), or the dict of str(result) and
\* sympy.latex(result).
format_result(result) ==
    IF IsInstance(result, "Integer") \/ IsInstance(result, "Float")
    THEN IF IsInstance(result, "Float") THEN [t |-> "float", of |-> result.of]
         ELSE [t |-> "int", of |-> result.of]
    ELSE IF IsInstance(result, "Rational")
    THEN [t |-> "str", parts |-> <<"exact", "approx", "decimal">>, of |-> result.of]
    ELSE IF IsInstance(result, "Matrix")
    THEN [t |-> "str", parts |-> <<"printed">>, of |-> result.of]
    ELSE IF IsInstance(result, "Expr")
    THEN [t |-> "dict", keys |-> {"text", "latex"}, of |-> result.of]
    ELSE [t |-> "str", parts |-> <<"printed">>, of |-> result.of]

\* Calculator.execute with a handler that lets the exception through.
Calculator_execute_Raising(expression) ==
    LET r == sympify(expression)
    IN IF r.exc # "none" THEN [raised |-> r.exc]
       ELSE [success |-> TRUE, result |-> format_result(r.value),
             result_type |-> determine_result_type(r.value), expression |-> expression]

\* Calculator.execute: every exception becomes success:false with str(e)
\* and the expression.
Calculator_execute(expression) ==
    LET r == sympify(expression)
    IN IF r.exc # "none"
       THEN [success |-> FALSE, error |-> r.exc, expression |-> expression]
       ELSE [success |-> TRUE, result |-> format_result(r.value),
             result_type |-> determine_result_type(r.value), expression |-> expression]

\* An entry of the table: {description, symbol, value, unit}.
Entry(k) ==
    [description |-> <<"description", k>>, symbol |-> k,
     value |-> <<"value", k>>, unit |-> <<"unit", k>>]

\* The enumeration entry of a table entry, with every field kept.
Brief_Whole(info) == info

\* {"description": info["description"], "symbol": info["symbol"]}
Brief(info) == [description |-> info.description, symbol |-> info.symbol]

\* The list of keys cut to its first element.
KeyList_First(table) ==
    [t |-> "list", keys |-> IF table = {} THEN {} ELSE {CHOOSE k \in table : TRUE}]

\* list(self.constants.keys())
KeyList(table) == [t |-> "list", keys |-> table]

\* PhysicsConstants.execute on the loaded table (its keys): the enumeration
\* of description and symbol without a name; the entry of a name that is a
\* key; the list of keys for another name; the handler's result when the
\* lookup raises (TypeError: an unhashable name).
PhysicsConstants_execute(table, constant_name) ==
    IF ~Truthy(constant_name)
    THEN [success |-> TRUE, constant |-> None,
          available_constants |->
              [t |-> "dict", keys |-> table, val |-> [k \in table |-> Brief(Entry(k))]]]
    ELSE IF constant_name.t = "list"
    THEN [success |-> FALSE, error |-> <<"Error looking up constant", "TypeError">>]
    ELSE IF constant_name.t = "str" /\ constant_name.s \in table
    THEN [success |-> TRUE, constant |-> Entry(constant_name.s),
          available_constants |-> None]
    ELSE [success |-> FALSE, error |-> <<"not found", constant_name>>,
          available_constants |-> KeyList(table)]

\* KnowledgeBase(subject=...) of the two constructors.
KnowledgeSubject(agent_key) == IF agent_key = "math" THEN "mathematics" ELSE "physics"

\* KnowledgeBase.execute: the generation call inside a try that catches
\* every Exception, GeminiAPIError included.
KnowledgeBase_execute(subject, query, g) ==
    IF g.ok THEN [success |-> TRUE, information |-> g.text, query |-> query,
                  subject |-> subject]
    ELSE [success |-> FALSE, error |-> "GeminiAPIError", query |-> query]

\* kb_result.get('information', '')
Information(result) ==
    IF "information" \in DOMAIN result THEN result.information ELSE ""

\* ------------------------------------------------------- tool-need analysis
RequiredFields(agent_key) ==
    IF agent_key = "math" THEN {"use_calculator", "expression", "reasoning"}
    ELSE {"use_calculator", "expression", "use_constants", "constant_name", "reasoning"}

MathAnalysis(uc, e) ==
    TObj([use_calculator |-> uc, expression |-> e, reasoning |-> JStr("because")])
PhysicsAnalysis(uc, e, ucon, cn) ==
    TObj([use_calculator |-> uc, expression |-> e, use_constants |-> ucon,
          constant_name |-> cn, reasoning |-> JStr("because")])

\* The default analyses of the two _analyze_tool_need methods.
DefaultToolAnalysis(agent_key) ==
    IF agent_key = "math" THEN MathAnalysis(JBool(FALSE), JNull)
    ELSE PhysicsAnalysis(JBool(FALSE), JNull, JBool(FALSE), JNull)

\* Values the generation service is taken to put into an analysis.
CalculatorValues ==
    {<<JBool(TRUE), JNull>>, <<JBool(TRUE), JStr("5*9+3")>>, <<JBool(TRUE), JStr("x+")>>,
     <<JBool(FALSE), JNull>>, <<JBool(FALSE), JStr("5*9+3")>>}
ConstantsValues ==
    {<<JBool(TRUE), JNull>>, <<JBool(TRUE), JStr("c")>>, <<JBool(TRUE), JStr("zz")>>,
     <<JBool(TRUE), JList(1)>>, <<JBool(FALSE), JNull>>, <<JBool(FALSE), JStr("c")>>}
AnalysisTexts(agent_key) ==
    {TGarbage, TSeq(RequiredFields(agent_key)),
     TObj([use_calculator |-> JBool(TRUE), reasoning |-> JStr("because")])}
    \cup (IF agent_key = "math"
          THEN {MathAnalysis(c[1], c[2]) : c \in CalculatorValues}
          ELSE {PhysicsAnalysis(c[1], c[2], k[1], k[2]) :
                  c \in CalculatorValues, k \in ConstantsValues})

\* MathAgent/PhysicsAgent._analyze_tool_need: GeminiAPIError is re-raised,
\* every other exception of the parse yields the default analysis.
\* Mutant of analyze_tool_need: a decoding failure is raised to the caller.
analyze_tool_need_Raising(agent_key, g) ==
    IF ~g.ok THEN Raise("GeminiAPIError")
    ELSE parse_json_response(g.text, RequiredFields(agent_key))

analyze_tool_need(agent_key, g) ==
    IF ~g.ok THEN Raise("GeminiAPIError")
    ELSE LET p == parse_json_response(g.text, RequiredFields(agent_key))
         IN IF p.exc = "none" THEN Ret(p.value) ELSE Ret(DefaultToolAnalysis(agent_key))

\* ------------------------------------------------------ specialist pipeline
\* Texts a response-producing generation call is taken to return.
RespTexts == {"", "answer"}

\* A step of process_question ends by going on, returning or raising.
Goto(l) == [k |-> "goto", pc |-> l]
Return(v) == [k |-> "return", value |-> v]
Throw(e) == [k |-> "raise", exc |-> e]

Resp(agent_key, text, tools, conf, extra) ==
    [agent |-> AgentName(agent_key), response |-> text, tools_used |-> tools,
     confidence |-> conf, extra |-> extra]

\* Mutant of SpecialistCatch: only a ValueError is answered with the apology.
SpecialistCatch_OnlyValueError(agent_key, exc) ==
    IF exc = "ValueError" THEN Return(Resp(agent_key, "apology", <<>>, 5000, {"error"}))
    ELSE Throw(exc)

\* The handlers that close process_question: GeminiAPIError is re-raised,
\* any other exception returns the apology with confidence 0.5.
\* Mutant of SpecialistCatch: every exception is raised to the caller.
SpecialistCatch_Rethrowing(agent_key, exc) == Throw(exc)

\* Mutant of SpecialistCatch: the apology carries the confidence 0.
SpecialistCatch_ZeroConfidence(agent_key, exc) ==
    IF exc = "GeminiAPIError" THEN Throw(exc)
    ELSE Return(Resp(agent_key, "apology", <<>>, 0, {"error"}))

SpecialistCatch(agent_key, exc) ==
    IF exc = "GeminiAPIError" THEN Throw(exc)
    ELSE Return(Resp(agent_key, "apology", <<>>, 5000, {"error"}))

\* Mutant of TierCatch: GeminiAPIError is not dropped by a tier.
TierCatch_Propagating(exc, next) == IF exc = "GeminiAPIError" THEN Throw(exc) ELSE next

\* The handler inside a tier, `except Exception as e: print(...)`: the
\* exception, GeminiAPIError included, is dropped and the next tier follows.
TierCatch(exc, next) == next

\* Mutant of AfterTool: the success flag of the tool is not looked at.
AfterTool_IgnoringSuccess(result, answer, next) == answer

\* `if result.get('success', False):` after a tool: its tier answers, or the
\* next tier follows.
AfterTool(result, answer, next) == IF result.success THEN answer ELSE next

\* The calculator tier is entered with use_calculator and an expression.
EnterCalculatorTier(agent_key, ta) ==
    IF ~IsDict(ta) THEN SpecialistCatch(agent_key, "AttributeError")
    ELSE IF Truthy(DictGet(ta, "use_calculator", JBool(FALSE)))
            /\ Truthy(DictGet(ta, "expression", JStr("")))
         THEN Goto("s_calculator")
         ELSE Goto("s_knowledge")

\* The constants tier (PhysicsAgent only) is entered with use_constants.
EnterConstantsTier(agent_key, ta) ==
    IF ~IsDict(ta) THEN SpecialistCatch(agent_key, "AttributeError")
    ELSE IF Truthy(DictGet(ta, "use_constants", JBool(FALSE)))
         THEN Goto("s_constants")
         ELSE EnterCalculatorTier(agent_key, ta)

AfterAnalysis(agent_key, ta) ==
    IF agent_key = "physics" THEN EnterConstantsTier(agent_key, ta)
    ELSE EnterCalculatorTier(agent_key, ta)


\* -------------------------------------------------------------- persistence
NoConversation == [exists |-> FALSE, user_id |-> "", messages |-> <<>>]
NewConversation(user_id) == [exists |-> TRUE, user_id |-> user_id, messages |-> <<>>]
Message(role, content, user_id, agent) ==
    [role |-> role, content |-> content, user_id |-> user_id, agent |-> agent]

\* MongoDB.get_conversation_messages: the document with this id and this
\* user_id, or None (also when the store raises: ok = FALSE).
get_conversation_messages(store, cid, user_id, ok) ==
    IF ok /\ cid \in DOMAIN store /\ store[cid].exists /\ store[cid].user_id = user_id
    THEN store[cid] ELSE None

\* Mutant of add_message_to_conversation: the message is pushed without
\* looking at the conversation.
add_message_to_conversation_Unchecked(store, cid, m, ok) ==
    IF ok /\ cid \in DOMAIN store
    THEN [store EXCEPT ![cid].messages = Append(@, m)]
    ELSE store

\* MongoDB.add_message_to_conversation: the store after the call; nothing is
\* appended when the conversation is missing, belongs to another user, or
\* the store raises.
add_message_to_conversation(store, cid, m, ok) ==
    IF ok /\ cid \in DOMAIN store /\ store[cid].exists /\ store[cid].user_id = m.user_id
    THEN [store EXCEPT ![cid].messages = Append(@, m)]
    ELSE store

\* Mutant of delete_conversation: the conversation is deleted by its id alone.
delete_conversation_AnyUser(store, cid, user_id, ok) ==
    IF ok /\ cid \in DOMAIN store /\ store[cid].exists
    THEN [store EXCEPT ![cid] = NoConversation]
    ELSE store

\* MongoDB.delete_conversation: the store after the call; the document with
\* this id and this user_id is deleted, if there is one.
delete_conversation(store, cid, user_id, ok) ==
    IF ok /\ cid \in DOMAIN store /\ store[cid].exists /\ store[cid].user_id = user_id
    THEN [store EXCEPT ![cid] = NoConversation]
    ELSE store

\* ------------------------------------------------------------------- state
VARIABLES
    pc,               \* where each request is
    rq,               \* its arguments
    served,           \* requests received so far
    conversation_id,  \* TutorAgent.process_question: conversation_id
    analysis,         \* ... analysis
    route,            \* ... subject, confidence, agent_key
    err,              \* ... the exception its handler got
    out,              \* ... what it returned or raised
    agent,            \* the specialist processing the request
    context,          \* process_question(question, context): context
    tool_analysis,    \* MathAgent/PhysicsAgent.process_question: tool_analysis
    constants_result, \* ... constants_result
    calc_result,      \* ... calc_result
    ret,              \* ... what it returned or raised
    calls,            \* the generation and tool calls made for the request
    current_context,  \* self._current_context of each specialist
    constants,        \* PhysicsConstants.constants (its keys)
    db,               \* the conversations collection
    next_id,          \* the next fresh conversation id
    http,             \* app.py: the response of the handler of each request
    parse_in,         \* parse_json_response(response, required_fields): its arguments
    parse_out,        \* ... the outcomes of the calls made with them
    tool_calls        \* execute(...) of the tools called on their own: argument, result

tutorVars == <<conversation_id, analysis, route, err, out>>
specVars == <<agent, context, tool_analysis, constants_result, calc_result, ret>>
sharedVars == <<current_context, constants, db, next_id>>
parseVars == <<parse_in, parse_out>>
vars == <<pc, rq, served, tutorVars, specVars, calls, sharedVars, http, parseVars, tool_calls>>

\* The keys of data/physics_constants.json that _load_constants has read.
LoadedConstants == {"c", "G"}

\* PhysicsConstants._load_constants: the table of the data file, or the
\* empty table when the file cannot be opened or read.
load_constants(file_present) == IF file_present THEN LoadedConstants ELSE {}

Init ==
    /\ pc = [r \in Requests |-> "idle"]
    /\ rq = [r \in Requests |-> None]
    /\ served = 0
    /\ conversation_id = [r \in Requests |-> NoConv]
    /\ analysis = [r \in Requests |-> None]
    /\ route = [r \in Requests |-> None]
    /\ err = [r \in Requests |-> "none"]
    /\ out = [r \in Requests |-> None]
    /\ agent = [r \in Requests |-> "none"]
    /\ context = [r \in Requests |-> None]
    /\ tool_analysis = [r \in Requests |-> None]
    /\ constants_result = [r \in Requests |-> None]
    /\ calc_result = [r \in Requests |-> None]
    /\ ret = [r \in Requests |-> None]
    /\ calls = [r \in Requests |-> <<>>]
    /\ current_context = [a \in SpecialistAgents |-> None]
    /\ constants = LoadedConstants
    /\ db = [c \in ConvIds |-> NoConversation]
    /\ next_id = 1
    /\ http = [r \in Requests |-> None]
    /\ parse_in = None
    /\ parse_out = <<>>
    /\ tool_calls = <<>>

\* A generation call (its stage, its outcome, the history in its prompt) and a
\* tool call (the tool, the success it reported).
Gen(name, g, hist) == [op |-> "gen", name |-> name, ok |-> g.ok, g |-> g, hist |-> hist]
Tool(name, ok) == [op |-> "tool", name |-> name, ok |-> ok]
Called(r, c) == calls' = [calls EXCEPT ![r] = Append(@, c)]

\* ------------------------------------------------------------------ entries
\* One request at a time: a request is taken when no other is in flight (the
\* slots are interchangeable, so the first one takes it).
Sequential(r) == (\A q \in Requests : pc[q] = "idle") /\ (\A q \in Requests : r <= q)

\* tutor_agent.process_question(question, user_id, conversation_id) is
\* called; requests are served one after another.
Receive(r) ==
    /\ pc[r] = "idle"
    /\ Sequential(r)
    /\ served < MaxRequests
    /\ \E u \in Users, c \in {NoConv} \cup ConvIds :
         /\ c = NoConv => next_id <= MaxConvs
         /\ rq' = [rq EXCEPT ![r] = [entry |-> "tutor", user_id |-> u, conversation_id |-> c]]
    /\ served' = served + 1
    /\ pc' = [pc EXCEPT ![r] = "t_ensure"]
    /\ UNCHANGED <<parseVars, tool_calls, tutorVars, specVars, calls, sharedVars, http>>

\* Contexts a caller of a specialist's process_question can pass.
DirectContexts ==
    {None, CtxEmpty, CtxDict(1, <<>>), CtxDict(1, <<[content |-> "x"]>>),
     CtxDict(1, <<Message("user", Question, "u1", "None")>>)}

\* MathAgent/PhysicsAgent.process_question(question, context) is called
\* by a caller other than the router.
CallSpecialist(r) ==
    /\ pc[r] = "idle"
    /\ Sequential(r)
    /\ served < MaxRequests
    /\ \E a \in SpecialistAgents, ctx \in DirectContexts :
         /\ rq' = [rq EXCEPT ![r] = [entry |-> "specialist", agent_key |-> a]]
         /\ agent' = [agent EXCEPT ![r] = a]
         /\ context' = [context EXCEPT ![r] = ctx]
    /\ served' = served + 1
    /\ pc' = [pc EXCEPT ![r] = "s_analyze"]
    /\ UNCHANGED <<parseVars, tool_calls, tutorVars, tool_analysis, constants_result, calc_result, ret,
                   calls, sharedVars, http>>

\* ------------------------------------------------------------------- router
\* Lines 54-63: the conversation is created when no id was given.
Tutor_EnsureConversation(r) ==
    /\ pc[r] = "t_ensure"
    /\ IF rq[r].conversation_id # NoConv
       THEN /\ conversation_id' = [conversation_id EXCEPT ![r] = rq[r].conversation_id]
            /\ pc' = [pc EXCEPT ![r] = "t_classify"]
            /\ UNCHANGED <<err, db, next_id>>
       ELSE \E ok \in BOOLEAN :
              IF ok
              THEN /\ db' = [db EXCEPT ![next_id] = NewConversation(rq[r].user_id)]
                   /\ next_id' = next_id + 1
                   /\ conversation_id' = [conversation_id EXCEPT ![r] = next_id]
                   /\ pc' = [pc EXCEPT ![r] = "t_classify"]
                   /\ UNCHANGED err
              ELSE /\ err' = [err EXCEPT ![r] = "Failed to create conversation"]
                   /\ pc' = [pc EXCEPT ![r] = "t_error"]
                   /\ UNCHANGED <<conversation_id, db, next_id>>
    /\ UNCHANGED <<parseVars, tool_calls, http, rq, served, analysis, route, out, specVars, calls, current_context,
                   constants>>

\* Where TutorAgent.process_question returns to: the /ask handler of app.py
\* (line 112), or a caller that has nothing more to do.
ReturnTo(r) == IF rq[r].entry = "ask" THEN "a_user" ELSE "done"

\* Mutant of TutorCatch: every exception is raised to the caller.
TutorCatch_RaiseAll(exc) == "raise"

\* The handlers that close TutorAgent.process_question: GeminiAPIError is
\* re-raised, any other exception ends in the error envelope.
TutorCatch(exc) == IF exc = "GeminiAPIError" THEN "raise" ELSE "envelope"

\* Lines 65-99: the classification call and the choice of the specialist.
Tutor_Classify(r) ==
    /\ pc[r] = "t_classify"
    /\ \E g \in GenOutcomes(ClassTexts) :
         LET a == analyze_question(g)
             sel == IF a.exc = "none" THEN SelectAgent(a.value) ELSE [exc |-> a.exc, msg |-> a.exc]
         IN /\ Called(r, Gen("classify", g, NoHistory))
            /\ analysis' = [analysis EXCEPT ![r] = IF a.exc = "none" THEN a.value ELSE @]
            /\ IF sel.exc = "none"
               THEN /\ route' = [route EXCEPT ![r] = sel]
                    /\ agent' = [agent EXCEPT ![r] = sel.agent_key]
                    /\ pc' = [pc EXCEPT ![r] = "t_get"]
                    /\ UNCHANGED <<err, out>>
               ELSE IF TutorCatch(sel.exc) = "raise"
               THEN /\ out' = [out EXCEPT ![r] = [kind |-> "raise", exc |-> sel.exc]]
                    /\ pc' = [pc EXCEPT ![r] = ReturnTo(r)]
                    /\ UNCHANGED <<route, agent, err>>
               ELSE /\ err' = [err EXCEPT ![r] = sel.msg]
                    /\ pc' = [pc EXCEPT ![r] = "t_error"]
                    /\ UNCHANGED <<route, agent, out>>
    /\ UNCHANGED <<parseVars, tool_calls, http, rq, served, conversation_id, context, tool_analysis, constants_result,
                   calc_result, ret, sharedVars>>

\* Mutant of Tutor_GetConversation: a conversation that was not retrieved
\* is taken as one without messages.
Tutor_GetConversation_Unchecked(r) ==
    /\ pc[r] = "t_get"
    /\ \E ok \in BOOLEAN :
         LET conversation ==
               get_conversation_messages(db, conversation_id[r], rq[r].user_id, ok)
         IN /\ context' = [context EXCEPT ![r] =
                             CtxDict(conversation_id[r],
                                     IF conversation = None THEN <<>>
                                     ELSE LastMessages(conversation.messages))]
            /\ pc' = [pc EXCEPT ![r] = "s_analyze"]
            /\ UNCHANGED err
    /\ UNCHANGED <<parseVars, tool_calls, http, rq, served, conversation_id, analysis, route, out, agent, tool_analysis,
                   constants_result, calc_result, ret, calls, sharedVars>>

\* Lines 101-117: the conversation is read and its last messages become
\* the context of the specialist.
Tutor_GetConversation(r) ==
    /\ pc[r] = "t_get"
    /\ \E ok \in BOOLEAN :
         LET conversation ==
               get_conversation_messages(db, conversation_id[r], rq[r].user_id, ok)
         IN IF conversation = None
            THEN /\ err' = [err EXCEPT ![r] = "Failed to retrieve conversation"]
                 /\ pc' = [pc EXCEPT ![r] = "t_error"]
                 /\ UNCHANGED context
            ELSE /\ context' = [context EXCEPT ![r] =
                                  CtxDict(conversation_id[r], LastMessages(conversation.messages))]
                 /\ pc' = [pc EXCEPT ![r] = "s_analyze"]
                 /\ UNCHANGED err
    /\ UNCHANGED <<parseVars, tool_calls, http, rq, served, conversation_id, analysis, route, out, agent, tool_analysis,
                   constants_result, calc_result, ret, calls, sharedVars>>


\* -------------------------------------------------------------- specialists
\* The step `st` is taken: the request goes on inside process_question, or
\* process_question returns or raises to its caller.
Apply(r, st) ==
    /\ pc' = [pc EXCEPT ![r] =
                IF st.k = "goto" THEN st.pc
                ELSE IF rq[r].entry = "specialist" THEN "done" ELSE "t_finish"]
    /\ ret' = [ret EXCEPT ![r] =
                 IF st.k = "goto" THEN @
                 ELSE IF st.k = "return" THEN Ret(st.value) ELSE Raise(st.exc)]

\* self._current_context = context; tool_analysis = self._analyze_tool_need(question)
Spec_Analyze(r) ==
    /\ pc[r] = "s_analyze"
    /\ current_context' = [current_context EXCEPT ![agent[r]] = context[r]]
    /\ \E g \in GenOutcomes(AnalysisTexts(agent[r])) :
         LET a == analyze_tool_need(agent[r], g)
         IN /\ Called(r, Gen("analysis", g, NoHistory))
            /\ IF a.exc # "none"
               THEN /\ Apply(r, SpecialistCatch(agent[r], a.exc))
                    /\ UNCHANGED tool_analysis
               ELSE /\ tool_analysis' = [tool_analysis EXCEPT ![r] = a.value]
                    /\ Apply(r, AfterAnalysis(agent[r], a.value))
    /\ UNCHANGED <<parseVars, tool_calls, http, rq, served, tutorVars, agent, context, constants_result, calc_result,
                   constants, db, next_id>>

\* PhysicsAgent lines 56-60: the PhysicsConstants lookup.
Spec_Constants(r) ==
    /\ pc[r] = "s_constants"
    /\ LET constant_name == DictGet(tool_analysis[r], "constant_name", JNull)
           u == use_tool(agent[r], "PhysicsConstants",
                         PhysicsConstants_execute(constants, constant_name))
           next == EnterCalculatorTier(agent[r], tool_analysis[r])
       IN IF u.exc # "none"
          THEN /\ Apply(r, TierCatch(u.exc, next))
               /\ UNCHANGED <<constants_result, calls>>
          ELSE /\ Called(r, Tool("PhysicsConstants", u.value.success))
               /\ constants_result' = [constants_result EXCEPT ![r] = u.value]
               /\ Apply(r, AfterTool(u.value, Goto("s_tierA"), next))
    /\ UNCHANGED <<parseVars, tool_calls, http, rq, served, tutorVars, agent, context, tool_analysis, calc_result,
                   sharedVars>>

\* PhysicsAgent._generate_response_with_constant (tier A), called inside the
\* try of the constants tier.
Spec_TierA(r) ==
    /\ pc[r] = "s_tierA"
    /\ LET constant == constants_result[r].constant
           h == FormatIfContext(current_context[agent[r]])
           next == EnterCalculatorTier(agent[r], tool_analysis[r])
       IN IF constant = None
          THEN /\ Apply(r, TierCatch("AttributeError", next))
               /\ UNCHANGED calls
          ELSE IF h.exc # "none"
          THEN /\ Apply(r, TierCatch(h.exc, next))
               /\ UNCHANGED calls
          ELSE \E g \in GenOutcomes(RespTexts) :
                 /\ Called(r, Gen("tierA", g, h.value))
                 /\ Apply(r, IF g.ok
                             THEN Return(Resp(agent[r], g.text, <<"PhysicsConstants">>, 9500,
                                              {"constant_info"}))
                             ELSE TierCatch("GeminiAPIError", next))
    /\ UNCHANGED <<parseVars, tool_calls, http, rq, served, tutorVars, agent, context, tool_analysis, constants_result,
                   calc_result, sharedVars>>

\* MathAgent lines 53-61, PhysicsAgent lines 68-73: the Calculator call.
Spec_Calculator(r) ==
    /\ pc[r] = "s_calculator"
    /\ LET expression == DictGet(tool_analysis[r], "expression", JStr(""))
           u == use_tool(agent[r], "Calculator", Calculator_execute(expression))
           next == Goto("s_knowledge")
       IN IF u.exc # "none"
          THEN /\ Apply(r, TierCatch(u.exc, next))
               /\ UNCHANGED <<calc_result, calls>>
          ELSE /\ Called(r, Tool("Calculator", u.value.success))
               /\ calc_result' = [calc_result EXCEPT ![r] = u.value]
               /\ Apply(r, AfterTool(u.value, Goto("s_tierB"), next))
    /\ UNCHANGED <<parseVars, tool_calls, http, rq, served, tutorVars, agent, context, tool_analysis, constants_result,
                   sharedVars>>

\* _generate_response_with_calculation (tier B), called inside the try of
\* the calculator tier.
Spec_TierB(r) ==
    /\ pc[r] = "s_tierB"
    /\ LET h == FormatIfContext(current_context[agent[r]])
           next == Goto("s_knowledge")
       IN IF h.exc # "none"
          THEN /\ Apply(r, TierCatch(h.exc, next))
               /\ UNCHANGED calls
          ELSE \E g \in GenOutcomes(RespTexts) :
                 /\ Called(r, Gen("tierB", g, h.value))
                 /\ Apply(r, IF g.ok
                             THEN Return(Resp(agent[r], g.text, <<"Calculator">>, 9500,
                                              {"calculation"}))
                             ELSE TierCatch("GeminiAPIError", next))
    /\ UNCHANGED <<parseVars, tool_calls, http, rq, served, tutorVars, agent, context, tool_analysis, constants_result,
                   calc_result, sharedVars>>

\* The knowledge tier: the history is formatted and KnowledgeBase is used.
Spec_Knowledge(r) ==
    /\ pc[r] = "s_knowledge"
    /\ LET h == FormatHistory(context[r])
           next == Goto("s_fallback")
       IN IF h.exc # "none"
          THEN /\ Apply(r, TierCatch(h.exc, next))
               /\ UNCHANGED calls
          ELSE \E g \in GenOutcomes(RespTexts) :
                 LET query == [question |-> Question, history |-> h.value]
                     u == use_tool(agent[r], "KnowledgeBase",
                                   KnowledgeBase_execute(KnowledgeSubject(agent[r]), query, g))
                 IN IF u.exc # "none"
                    THEN /\ Apply(r, TierCatch(u.exc, next))
                         /\ UNCHANGED calls
                    ELSE /\ calls' = [calls EXCEPT ![r] =
                                        @ \o <<Tool("KnowledgeBase", u.value.success),
                                               Gen("knowledge", g, h.value)>>]
                         /\ Apply(r, AfterTool(u.value,
                                               Return(Resp(agent[r], Information(u.value),
                                                           <<"KnowledgeBase">>, 9000, {})),
                                               next))
    /\ UNCHANGED <<parseVars, tool_calls, http, rq, served, tutorVars, agent, context, tool_analysis, constants_result,
                   calc_result, sharedVars>>

\* The terminal fallback: a direct generation call, outside any inner try.
Spec_Fallback(r) ==
    /\ pc[r] = "s_fallback"
    /\ LET h == FormatHistory(context[r])
       IN IF h.exc # "none"
          THEN /\ Apply(r, SpecialistCatch(agent[r], h.exc))
               /\ UNCHANGED calls
          ELSE \E g \in GenOutcomes(RespTexts) :
                 /\ Called(r, Gen("fallback", g, h.value))
                 /\ Apply(r, IF g.ok THEN Return(Resp(agent[r], g.text, <<>>, 8000, {}))
                             ELSE SpecialistCatch(agent[r], "GeminiAPIError"))
    /\ UNCHANGED <<parseVars, tool_calls, http, rq, served, tutorVars, agent, context, tool_analysis, constants_result,
                   calc_result, sharedVars>>

\* ----------------------------------------------------------- router, the end
\* Mutant of Answer: the confidence is the specialist's.
Answer_SpecialistConfidence(response, subject, confidence, cid) ==
    [kind |-> "answer", response |-> response.response, agent |-> response.agent,
     subject |-> subject, confidence |-> JNum(response.confidence),
     conversation_id |-> cid, tools_used |-> response.tools_used]

\* Lines 127-134: the result of the router.
Answer(response, subject, confidence, cid) ==
    [kind |-> "answer", response |-> response.response, agent |-> response.agent,
     subject |-> subject, confidence |-> confidence,
     conversation_id |-> cid, tools_used |-> response.tools_used]

\* Lines 119-134: the specialist's response is checked and returned with
\* the subject, the confidence and the conversation id.
Tutor_Finish(r) ==
    /\ pc[r] = "t_finish"
    /\ IF ret[r].exc # "none"
       THEN IF TutorCatch(ret[r].exc) = "raise"
            THEN /\ out' = [out EXCEPT ![r] = [kind |-> "raise", exc |-> ret[r].exc]]
                 /\ pc' = [pc EXCEPT ![r] = ReturnTo(r)]
                 /\ UNCHANGED err
            ELSE /\ err' = [err EXCEPT ![r] = ret[r].exc]
                 /\ pc' = [pc EXCEPT ![r] = "t_error"]
                 /\ UNCHANGED out
       ELSE LET response == ret[r].value
            IN IF response.response = ""
               THEN /\ err' = [err EXCEPT ![r] = "Empty response from specialist agent"]
                    /\ pc' = [pc EXCEPT ![r] = "t_error"]
                    /\ UNCHANGED out
               ELSE /\ out' = [out EXCEPT ![r] =
                                 Answer(response, route[r].subject, route[r].confidence,
                                        conversation_id[r])]
                    /\ pc' = [pc EXCEPT ![r] = ReturnTo(r)]
                    /\ UNCHANGED err
    /\ UNCHANGED <<parseVars, tool_calls, http, rq, served, conversation_id, analysis, route, specVars, calls, sharedVars>>

\* Mutant of ErrorEnvelope: the envelope carries no conversation id.
ErrorEnvelope_NoId(error, cid) ==
    [kind |-> "envelope", error |-> error, conversation_id |-> NoConv,
     agent |-> "Tutor Agent", tools_used |-> <<>>]

\* Lines 153-158: the error envelope.
ErrorEnvelope(error, cid) ==
    [kind |-> "envelope", error |-> error, conversation_id |-> cid,
     agent |-> "Tutor Agent", tools_used |-> <<>>]

\* Lines 144-149: the system message of the handler, carrying the error text.
ErrorMessage(error, user_id) == Message("system", error, user_id, "None")

\* Lines 139-158: the system message is stored when a conversation id is
\* known, and the error envelope is returned.
Tutor_HandleError(r) ==
    /\ pc[r] = "t_error"
    /\ IF conversation_id[r] # NoConv
       THEN \E ok \in BOOLEAN :
              db' = add_message_to_conversation(db, conversation_id[r],
                      ErrorMessage(err[r], rq[r].user_id), ok)
       ELSE UNCHANGED db
    /\ out' = [out EXCEPT ![r] = ErrorEnvelope(err[r], conversation_id[r])]
    /\ pc' = [pc EXCEPT ![r] = ReturnTo(r)]
    /\ UNCHANGED <<parseVars, tool_calls, http, rq, served, conversation_id, analysis, route, err, specVars, calls,
                   current_context, constants, next_id>>

\* The caller has the outcome; the slot is free for the next request.
Reset(r) ==
    /\ pc[r] = "done"
    /\ pc' = [pc EXCEPT ![r] = "idle"]
    /\ rq' = [rq EXCEPT ![r] = None]
    /\ conversation_id' = [conversation_id EXCEPT ![r] = NoConv]
    /\ analysis' = [analysis EXCEPT ![r] = None]
    /\ route' = [route EXCEPT ![r] = None]
    /\ err' = [err EXCEPT ![r] = "none"]
    /\ out' = [out EXCEPT ![r] = None]
    /\ agent' = [agent EXCEPT ![r] = "none"]
    /\ context' = [context EXCEPT ![r] = None]
    /\ tool_analysis' = [tool_analysis EXCEPT ![r] = None]
    /\ constants_result' = [constants_result EXCEPT ![r] = None]
    /\ calc_result' = [calc_result EXCEPT ![r] = None]
    /\ ret' = [ret EXCEPT ![r] = None]
    /\ calls' = [calls EXCEPT ![r] = <<>>]
    /\ http' = [http EXCEPT ![r] = None]
    /\ UNCHANGED <<parseVars, tool_calls, served, sharedVars>>

Next ==
    \E r \in Requests :
        \/ Receive(r)
        \/ CallSpecialist(r)
        \/ Tutor_EnsureConversation(r)
        \/ Tutor_Classify(r)
        \/ Tutor_GetConversation(r)
        \/ Spec_Analyze(r)
        \/ Spec_Constants(r)
        \/ Spec_TierA(r)
        \/ Spec_Calculator(r)
        \/ Spec_TierB(r)
        \/ Spec_Knowledge(r)
        \/ Spec_Fallback(r)
        \/ Tutor_Finish(r)
        \/ Tutor_HandleError(r)
        \/ Reset(r)

Spec == Init /\ [][Next]_vars

\* A call that was made runs on: process_question is straight-line code
\* with no loop, and every call it makes returns or raises.
FairSpec == Spec /\ WF_vars(Next)

\* ============================================================ the service
\* The handlers of app.py over a store that already holds a conversation,
\* their requests in flight at the same time.

\* The conversation the store holds at the start: conversation 1 of user
\* "u1", its messages the turns of earlier requests.
StoredContent ==
    <<"m1", "m2", "m3", "m4", "m5", "m6", "m7", "m8", "m9", "m10", "m11", "m12">>
StoredMessage(i) ==
    Message(IF i % 2 = 1 THEN "user" ELSE "assistant", StoredContent[i], "u1",
            IF i % 2 = 1 THEN "None" ELSE "Math Agent")
StoredConversation(n) ==
    [exists |-> TRUE, user_id |-> "u1", messages |-> [i \in 1..n |-> StoredMessage(i)]]

AppInit ==
    /\ pc = [r \in Requests |-> "idle"]
    /\ rq = [r \in Requests |-> None]
    /\ served = 0
    /\ conversation_id = [r \in Requests |-> NoConv]
    /\ analysis = [r \in Requests |-> None]
    /\ route = [r \in Requests |-> None]
    /\ err = [r \in Requests |-> "none"]
    /\ out = [r \in Requests |-> None]
    /\ agent = [r \in Requests |-> "none"]
    /\ context = [r \in Requests |-> None]
    /\ tool_analysis = [r \in Requests |-> None]
    /\ constants_result = [r \in Requests |-> None]
    /\ calc_result = [r \in Requests |-> None]
    /\ ret = [r \in Requests |-> None]
    /\ calls = [r \in Requests |-> <<>>]
    /\ current_context = [a \in SpecialistAgents |-> None]
    /\ constants = LoadedConstants
    /\ \E n \in {0, MaxStored} :
         db = [c \in ConvIds |-> IF c = 1 THEN StoredConversation(n) ELSE NoConversation]
    /\ next_id = 2
    /\ http = [r \in Requests |-> None]
    /\ parse_in = None
    /\ parse_out = <<>>
    /\ tool_calls = <<>>

\* The responses of the handlers.
Http(status, body) == [status |-> status, body |-> body]
ErrorBody == [t |-> "error"]

\* Mutant of UserMessage: the question is stored under the role of the answer.
UserMessage_AsAssistant(user_id, question) == Message("assistant", question, user_id, "None")

\* ask_question, lines 118-123 and 129-137: the two messages it stores.
UserMessage(user_id, question) == Message("user", question, user_id, "None")
AssistantMessage(user_id, response) ==
    Message("assistant", response.response, user_id, response.agent)

\* The handler is over with this response.
Respond(r, h) ==
    /\ http' = [http EXCEPT ![r] = h]
    /\ pc' = [pc EXCEPT ![r] = "done"]

\* ask_question, lines 90-112: the user is looked up, the conversation is
\* created when the request names none, and the router is called.
Ask(r) ==
    /\ pc[r] = "idle" /\ rq[r] = None
    /\ \E u \in Users, c \in {NoConv} \cup ConvIds, ok \in BOOLEAN :
         IF ~ok
         THEN /\ rq' = [rq EXCEPT ![r] =
                         [entry |-> "ask", user_id |-> u, conversation_id |-> c]]
              /\ Respond(r, Http(500, ErrorBody))
              /\ UNCHANGED <<db, next_id>>
         ELSE IF c # NoConv
         THEN /\ rq' = [rq EXCEPT ![r] =
                         [entry |-> "ask", user_id |-> u, conversation_id |-> c]]
              /\ pc' = [pc EXCEPT ![r] = "t_ensure"]
              /\ UNCHANGED <<db, next_id, http>>
         ELSE /\ next_id <= MaxConvs
              /\ db' = [db EXCEPT ![next_id] = NewConversation(u)]
              /\ next_id' = next_id + 1
              /\ rq' = [rq EXCEPT ![r] =
                         [entry |-> "ask", user_id |-> u, conversation_id |-> next_id]]
              /\ pc' = [pc EXCEPT ![r] = "t_ensure"]
              /\ UNCHANGED http
    /\ UNCHANGED <<parseVars, tool_calls, served, tutorVars, specVars, calls, current_context, constants>>

\* Mutant of App_StoreUser: the user message is stored before the exception
\* of the router ends the handler.
App_StoreUser_StoringFirst(r) ==
    /\ pc[r] = "a_user"
    /\ \E ok \in BOOLEAN :
         LET store == add_message_to_conversation(db, rq[r].conversation_id,
                        UserMessage(rq[r].user_id, Question), ok)
         IN IF out[r].kind = "raise"
            THEN /\ db' = store
                 /\ Respond(r, Http(500, ErrorBody))
            ELSE IF store = db
            THEN /\ Respond(r, Http(500, ErrorBody))
                 /\ UNCHANGED db
            ELSE /\ db' = store
                 /\ pc' = [pc EXCEPT ![r] = "a_assistant"]
                 /\ UNCHANGED http
    /\ UNCHANGED <<parseVars, tool_calls, rq, served, tutorVars, specVars, calls, current_context, constants,
                   next_id>>

\* ask_question, lines 112-126: an exception of the router ends the handler
\* (line 146); otherwise the user message is stored.
App_StoreUser(r) ==
    /\ pc[r] = "a_user"
    /\ IF out[r].kind = "raise"
       THEN /\ Respond(r, Http(500, ErrorBody))
            /\ UNCHANGED db
       ELSE \E ok \in BOOLEAN :
              LET store == add_message_to_conversation(db, rq[r].conversation_id,
                             UserMessage(rq[r].user_id, Question), ok)
              IN IF store = db
                 THEN /\ Respond(r, Http(500, ErrorBody))
                      /\ UNCHANGED db
                 ELSE /\ db' = store
                      /\ pc' = [pc EXCEPT ![r] = "a_assistant"]
                      /\ UNCHANGED http
    /\ UNCHANGED <<parseVars, tool_calls, rq, served, tutorVars, specVars, calls, current_context, constants,
                   next_id>>

\* ask_question, lines 128-144: response["response"] raises KeyError on the
\* error envelope (line 146); otherwise the assistant message is stored and
\* the answer is returned.
App_StoreAssistant(r) ==
    /\ pc[r] = "a_assistant"
    /\ IF out[r].kind = "envelope"
       THEN /\ Respond(r, Http(500, ErrorBody))
            /\ UNCHANGED db
       ELSE \E ok \in BOOLEAN :
              LET store == add_message_to_conversation(db, rq[r].conversation_id,
                             AssistantMessage(rq[r].user_id, out[r]), ok)
              IN /\ db' = store
                 /\ Respond(r, IF store = db THEN Http(500, ErrorBody)
                                ELSE Http(200, [t |-> "answer",
                                                conversation_id |-> rq[r].conversation_id]))
    /\ UNCHANGED <<parseVars, tool_calls, rq, served, tutorVars, specVars, calls, current_context, constants,
                   next_id>>

\* get_conversation_messages of app.py, lines 175-229.
GetMessages(r) ==
    /\ pc[r] = "idle" /\ rq[r] = None
    /\ \E u \in Users, c \in ConvIds, ok \in BOOLEAN :
         LET conversation == get_conversation_messages(db, c, u, ok)
         IN /\ rq' = [rq EXCEPT ![r] =
                       [entry |-> "get", user_id |-> u, conversation_id |-> c]]
            /\ Respond(r, IF conversation = None THEN Http(404, ErrorBody)
                           ELSE Http(200, [t |-> "conversation", data |-> conversation]))
    /\ UNCHANGED <<parseVars, tool_calls, served, tutorVars, specVars, calls, sharedVars>>

\* delete_conversation of app.py, lines 233-253.
DeleteConversation(r) ==
    /\ pc[r] = "idle" /\ rq[r] = None
    /\ \E u \in Users, c \in ConvIds, ok \in BOOLEAN :
         LET store == delete_conversation(db, c, u, ok)
         IN /\ rq' = [rq EXCEPT ![r] =
                       [entry |-> "delete", user_id |-> u, conversation_id |-> c]]
            /\ db' = store
            /\ Respond(r, IF store = db THEN Http(404, ErrorBody)
                           ELSE Http(200, [t |-> "deleted"]))
    /\ UNCHANGED <<parseVars, tool_calls, served, tutorVars, specVars, calls, current_context, constants, next_id>>

\* The generation service as the service is checked with: classifications
\* and analyses are well-formed objects, response texts are not empty, and a
\* response-producing call may fail.
AppClassTexts == {ClassObj(JStr("math"), JNum(7000)), ClassObj(JStr("PHYSICS"), JNum(7000))}
AppAnalysisTexts ==
    {MathAnalysis(JBool(TRUE), JStr("5*9+3")), MathAnalysis(JBool(FALSE), JNull),
     PhysicsAnalysis(JBool(FALSE), JNull, JBool(TRUE), JStr("c")),
     PhysicsAnalysis(JBool(FALSE), JNull, JBool(FALSE), JNull)}
Expected(c) ==
    c.op = "gen" =>
        CASE c.name = "classify" -> c.ok /\ c.g.text \in AppClassTexts
          [] c.name = "analysis" -> c.ok /\ c.g.text \in AppAnalysisTexts
          [] OTHER -> c.ok => c.g.text = "answer"
Serviced(r) == \A i \in 1..Len(calls[r]) : Expected(calls[r][i])

App_Classify(r) == Tutor_Classify(r) /\ Serviced(r)'
App_Analyze(r) == Spec_Analyze(r) /\ Serviced(r)'
App_TierA(r) == Spec_TierA(r) /\ Serviced(r)'
App_TierB(r) == Spec_TierB(r) /\ Serviced(r)'
App_Knowledge(r) == Spec_Knowledge(r) /\ Serviced(r)'
App_Fallback(r) == Spec_Fallback(r) /\ Serviced(r)'

AppNext ==
    \E r \in Requests :
        \/ Ask(r)
        \/ GetMessages(r)
        \/ DeleteConversation(r)
        \/ Tutor_EnsureConversation(r)
        \/ App_Classify(r)
        \/ Tutor_GetConversation(r)
        \/ App_Analyze(r)
        \/ Spec_Constants(r)
        \/ App_TierA(r)
        \/ Spec_Calculator(r)
        \/ App_TierB(r)
        \/ App_Knowledge(r)
        \/ App_Fallback(r)
        \/ Tutor_Finish(r)
        \/ Tutor_HandleError(r)
        \/ App_StoreUser(r)
        \/ App_StoreAssistant(r)

AppSpec == AppInit /\ [][AppNext]_vars

\* ------------------------------------------------ /ask, one request at a time
\* ask_question is called when no other request is in flight.
SeqAsk(r) == Ask(r) /\ \A q \in Requests \ {r} : pc[q] \in {"idle", "done"}

SeqNext ==
    \E r \in Requests :
        \/ SeqAsk(r)
        \/ Tutor_EnsureConversation(r)
        \/ App_Classify(r)
        \/ Tutor_GetConversation(r)
        \/ App_Analyze(r)
        \/ Spec_Constants(r)
        \/ App_TierA(r)
        \/ Spec_Calculator(r)
        \/ App_TierB(r)
        \/ App_Knowledge(r)
        \/ App_Fallback(r)
        \/ Tutor_Finish(r)
        \/ Tutor_HandleError(r)
        \/ App_StoreUser(r)
        \/ App_StoreAssistant(r)

SeqAppSpec == AppInit /\ [][SeqNext]_vars

\* ------------------------------------------------- parse_json_response alone
\* JSON objects the generation service is taken to write.
Payloads == {<<"{", "}">>, <<"{", "a", "}">>, <<"{", " ", "a", ",", " ", "b", " ", "}">>}

\* What the service writes before and after the object: nothing, whitespace,
\* a json code fence, prose, prose that itself holds braces.
Wrappings ==
    {[name |-> "bare", before |-> <<>>, after |-> <<>>],
     [name |-> "blank", before |-> <<" ">>, after |-> <<" ">>],
     [name |-> "fence", before |-> <<"f", " ">>, after |-> <<" ", "f">>],
     [name |-> "prose", before |-> <<"w", "w", " ">>, after |-> <<" ", "w">>],
     [name |-> "prose", before |-> <<"w", " ">>, after |-> <<>>],
     [name |-> "prose", before |-> <<>>, after |-> <<" ", "w", "n">>],
     [name |-> "prose", before |-> <<"w", ",", " ">>, after |-> <<",", "w">>],
     [name |-> "braced prose", before |-> <<"w", "{", "w", "}", " ">>, after |-> <<>>],
     [name |-> "braced prose", before |-> <<>>, after |-> <<" ", "w", "{", "w", "}">>],
     [name |-> "braced prose", before |-> <<"w", "{", " ">>, after |-> <<>>],
     [name |-> "braced prose", before |-> <<>>, after |-> <<" ", "}", "w">>],
     [name |-> "braced prose", before |-> <<>>, after |-> <<" ", "{", "b", "}">>],
     [name |-> "braced prose", before |-> <<"w", "}", " ">>, after |-> <<" ", "{", "w">>]}

\* Texts without an object: prose, a number, an unclosed object, nothing.
OtherTexts == {<<"w", " ", "w">>, <<"n">>, <<" ", "n", " ">>, <<"{", "a">>, <<"a", "}">>, <<>>}

FieldLists == {{}, {"a"}, {"a", "b"}}

ParseInputs ==
    {[payload |-> p, wrapping |-> w.name, response |-> w.before \o p \o w.after,
      required_fields |-> f] : p \in Payloads, w \in Wrappings, f \in FieldLists}
    \cup {[payload |-> <<>>, wrapping |-> "none", response |-> t, required_fields |-> f] :
             t \in OtherTexts, f \in FieldLists}

ParseInit ==
    /\ pc = [r \in Requests |-> "idle"]
    /\ rq = [r \in Requests |-> None]
    /\ served = 0
    /\ conversation_id = [r \in Requests |-> NoConv]
    /\ analysis = [r \in Requests |-> None]
    /\ route = [r \in Requests |-> None]
    /\ err = [r \in Requests |-> "none"]
    /\ out = [r \in Requests |-> None]
    /\ agent = [r \in Requests |-> "none"]
    /\ context = [r \in Requests |-> None]
    /\ tool_analysis = [r \in Requests |-> None]
    /\ constants_result = [r \in Requests |-> None]
    /\ calc_result = [r \in Requests |-> None]
    /\ ret = [r \in Requests |-> None]
    /\ calls = [r \in Requests |-> <<>>]
    /\ current_context = [a \in SpecialistAgents |-> None]
    /\ constants = LoadedConstants
    /\ db = [c \in ConvIds |-> NoConversation]
    /\ next_id = 1
    /\ http = [r \in Requests |-> None]
    /\ parse_in \in ParseInputs
    /\ parse_out = <<>>
    /\ tool_calls = <<>>

\* parse_json_response(response, required_fields) is called; it reads and
\* writes nothing but its arguments and its result.
Parse ==
    /\ parse_in # None
    /\ Len(parse_out) < MaxParses
    /\ parse_out' = Append(parse_out,
                           parse_json_text(parse_in.response, parse_in.required_fields))
    /\ UNCHANGED <<parse_in, tool_calls, pc, rq, served, tutorVars, specVars, calls,
                   sharedVars, http>>

ParseNext == Parse

ParseSpec == ParseInit /\ [][ParseNext]_vars

\* --------------------------------------------------------- the tools alone
\* Arguments execute is called with.
ToolExpressions ==
    {JStr(e) : e \in {"5*9+3", "1/3", "0.5*3", "x", "x+1", "Matrix([[1, 2]])", "1 < 2", "x+"}}
ConstantNames == {JNull, JStr(""), JStr("c"), JStr("G"), JStr("zz"), JList(1)}
Queries == {[question |-> Question, history |-> NoHistory]}

\* The tools are constructed; the data file of the constants is there or not.
ToolInit ==
    /\ pc = [r \in Requests |-> "idle"]
    /\ rq = [r \in Requests |-> None]
    /\ served = 0
    /\ conversation_id = [r \in Requests |-> NoConv]
    /\ analysis = [r \in Requests |-> None]
    /\ route = [r \in Requests |-> None]
    /\ err = [r \in Requests |-> "none"]
    /\ out = [r \in Requests |-> None]
    /\ agent = [r \in Requests |-> "none"]
    /\ context = [r \in Requests |-> None]
    /\ tool_analysis = [r \in Requests |-> None]
    /\ constants_result = [r \in Requests |-> None]
    /\ calc_result = [r \in Requests |-> None]
    /\ ret = [r \in Requests |-> None]
    /\ calls = [r \in Requests |-> <<>>]
    /\ current_context = [a \in SpecialistAgents |-> None]
    /\ \E file_present \in BOOLEAN : constants = load_constants(file_present)
    /\ db = [c \in ConvIds |-> NoConversation]
    /\ next_id = 1
    /\ http = [r \in Requests |-> None]
    /\ parse_in = None
    /\ parse_out = <<>>
    /\ tool_calls = <<>>

ToolCall(tool, arg, result) == [tool |-> tool, arg |-> arg, result |-> result]
ToolUnchanged ==
    UNCHANGED <<parseVars, pc, rq, served, tutorVars, specVars, calls, sharedVars, http>>

\* Calculator.execute(expression)
Calculate ==
    /\ Len(tool_calls) < MaxToolCalls
    /\ \E e \in ToolExpressions :
         tool_calls' = Append(tool_calls, ToolCall("Calculator", e, Calculator_execute(e)))
    /\ ToolUnchanged

\* PhysicsConstants.execute(constant_name)
LookUp ==
    /\ Len(tool_calls) < MaxToolCalls
    /\ \E n \in ConstantNames :
         tool_calls' = Append(tool_calls, ToolCall("PhysicsConstants", n,
                                                   PhysicsConstants_execute(constants, n)))
    /\ ToolUnchanged

\* KnowledgeBase.execute(query)
Retrieve ==
    /\ Len(tool_calls) < MaxToolCalls
    /\ \E a \in SpecialistAgents, q \in Queries, g \in GenOutcomes(RespTexts) :
         tool_calls' = Append(tool_calls, ToolCall("KnowledgeBase", q,
                              KnowledgeBase_execute(KnowledgeSubject(a), q, g)))
    /\ ToolUnchanged

ToolNext == Calculate \/ LookUp \/ Retrieve

ToolSpec == ToolInit /\ [][ToolNext]_vars


\* ================================================================== claims
\* What the calls made for a request show.
ToolCalled(r, name) ==
    \E i \in 1..Len(calls[r]) : calls[r][i].op = "tool" /\ calls[r][i].name = name
ToolFailed(r, name) ==
    \E i \in 1..Len(calls[r]) :
        calls[r][i].op = "tool" /\ calls[r][i].name = name /\ ~calls[r][i].ok
GenCalled(r, name) ==
    \E i \in 1..Len(calls[r]) : calls[r][i].op = "gen" /\ calls[r][i].name = name
GenFailed(r, name) ==
    \E i \in 1..Len(calls[r]) :
        calls[r][i].op = "gen" /\ calls[r][i].name = name /\ ~calls[r][i].ok
GenSucceeded(r, name) ==
    \E i \in 1..Len(calls[r]) :
        calls[r][i].op = "gen" /\ calls[r][i].name = name /\ calls[r][i].ok
\* The specialist's process_question has returned or raised.
Finished(r) == ret[r] # None
Returned(r) == ret[r] # None /\ ret[r].exc = "none"
Names(seq) == {seq[i] : i \in 1..Len(seq)}
SpecialistStages == {"analysis", "tierA", "tierB", "knowledge", "fallback"}

\* C1: a GeminiAPIError raised by the generation call of any stage of a
\* specialist (analysis, tier A, tier B, the KnowledgeBase call, the
\* fallback) is the last call of the request and leaves process_question
\* at once as GeminiAPIError.
C1_ServiceFailureAbortsSpecialist ==
    \A r \in Requests : \A i \in 1..Len(calls[r]) :
        (calls[r][i].op = "gen" /\ calls[r][i].name \in SpecialistStages /\ ~calls[r][i].ok)
        => (i = Len(calls[r]) /\ ret[r] = Raise("GeminiAPIError"))

\* C2: whatever fails, a specialist's process_question and the router's
\* process_question raise nothing but GeminiAPIError; a request that is over
\* has returned a dictionary (an answer, the apology, the error envelope)
\* or raised GeminiAPIError.
C2_OnlyServiceErrorEscapes ==
    \A r \in Requests :
        /\ Finished(r) => ret[r].exc \in {"none", "GeminiAPIError"}
        /\ out[r] # None =>
             \/ out[r].kind \in {"answer", "envelope"}
             \/ out[r].kind = "raise" /\ out[r].exc = "GeminiAPIError"
        /\ pc[r] = "done" =>
             IF rq[r].entry = "specialist" THEN Finished(r) ELSE out[r] # None

\* C2, its case: the analysis was no record, the AttributeError it caused
\* ended in the apology of the specialist, and the router returned that.
C2_Witness ==
    \E r \in Requests :
        /\ pc[r] = "done"
        /\ rq[r].entry = "tutor"
        /\ tool_analysis[r] # None /\ ~IsDict(tool_analysis[r])
        /\ Returned(r) /\ "error" \in ret[r].value.extra
        /\ out[r].kind = "answer"

\* The tier a call belongs to.
TierRank(c) ==
    CASE c.name \in {"PhysicsConstants", "tierA"} -> 1
      [] c.name \in {"Calculator", "tierB"} -> 2
      [] c.name \in {"KnowledgeBase", "knowledge"} -> 3
      [] c.name = "fallback" -> 4
      [] OTHER -> 0

\* C3: the calls of a request follow the order constants, calculator,
\* knowledge, fallback, none twice, constants only in the Physics agent;
\* after Calculator or PhysicsConstants reported success:false the request
\* has left that tier for a later one and the synthesis call of that tier is
\* never made; the tools_used returned name no tool that reported failure.
C3_TierOrder ==
    \A r \in Requests :
        /\ \A i, j \in 1..Len(calls[r]) :
             i < j => /\ TierRank(calls[r][i]) <= TierRank(calls[r][j])
                      /\ ~(calls[r][i].op = calls[r][j].op /\ calls[r][i].name = calls[r][j].name)
        /\ ToolCalled(r, "PhysicsConstants") => agent[r] = "physics"
        /\ \A i \in 1..Len(calls[r]) :
             (calls[r][i].op = "tool" /\ ~calls[r][i].ok) =>
                /\ Returned(r) => calls[r][i].name \notin Names(ret[r].value.tools_used)
                /\ calls[r][i].name = "PhysicsConstants" =>
                      /\ pc[r] \notin {"s_constants", "s_tierA"}
                      /\ ~GenCalled(r, "tierA")
                      /\ i = Len(calls[r]) /\ ~Finished(r) =>
                            pc[r] \in {"s_calculator", "s_knowledge", "s_fallback"}
                /\ calls[r][i].name = "Calculator" =>
                      /\ pc[r] \notin {"s_constants", "s_tierA", "s_calculator", "s_tierB"}
                      /\ ~GenCalled(r, "tierB")
                      /\ i = Len(calls[r]) /\ ~Finished(r) =>
                            pc[r] \in {"s_knowledge", "s_fallback"}

\* C3, its case: PhysicsConstants and Calculator both reported failure and
\* the request was answered by the knowledge tier.
C3_Witness ==
    \E r \in Requests :
        /\ ToolFailed(r, "PhysicsConstants") /\ ToolFailed(r, "Calculator")
        /\ Returned(r) /\ ret[r].value.tools_used = <<"KnowledgeBase">>

\* C4: in the Physics agent, once PhysicsConstants has returned success:true
\* (whatever constant_name was) and tier A is over without a failed
\* generation call, the request has returned with
\* tools_used = ["PhysicsConstants"] and neither Calculator nor KnowledgeBase
\* was called.
C4_ConstantsSuccessAnswers ==
    \A r \in Requests :
        (/\ agent[r] = "physics"
         /\ constants_result[r] # None
         /\ constants_result[r].success
         /\ pc[r] # "s_tierA"
         /\ ~GenFailed(r, "tierA")
         /\ FormatHistory(context[r]).exc = "none")
        => /\ Returned(r)
           /\ ret[r].value.tools_used = <<"PhysicsConstants">>
           /\ ~ToolCalled(r, "Calculator")
           /\ ~ToolCalled(r, "KnowledgeBase")


\* The request came through the router, was classified as math, its analysis
\* asked for the calculator with an expression, Calculator succeeded and the
\* tier B synthesis call succeeded.
C5_Case(r) ==
    /\ rq[r] # None /\ rq[r].entry = "tutor"
    /\ route[r] # None /\ route[r].subject = "math"
    /\ tool_analysis[r] # None /\ IsDict(tool_analysis[r])
    /\ Truthy(DictGet(tool_analysis[r], "use_calculator", JBool(FALSE)))
    /\ Truthy(DictGet(tool_analysis[r], "expression", JStr("")))
    /\ calc_result[r] # None /\ calc_result[r].success
    /\ GenSucceeded(r, "tierB")

EarlierTierReturned(r) == Returned(r) /\ ret[r].value.tools_used # <<>>

\* When the fallback call succeeded the result is tools_used = [], 0.8.
FallbackResult(r) ==
    GenSucceeded(r, "fallback") =>
        /\ Returned(r)
        /\ ret[r].value.tools_used = <<>>
        /\ ret[r].value.confidence = 8000

\* C6 as claimed: for a request the specialist is done with, the fallback
\* generation call was made if and only if no earlier tier returned a
\* result; when it succeeded the result is tools_used = [], confidence 0.8.
C6_FallbackIffNoTierReturned ==
    \A r \in Requests :
        Finished(r) =>
            /\ GenCalled(r, "fallback") <=> ~EarlierTierReturned(r)
            /\ FallbackResult(r)

\* C6 as amended: the fallback generation call was made if and only if the
\* analysis yielded a record (its call did not raise, the decoded value is a
\* dictionary), the history of the context can be formatted, and no earlier
\* tier returned a result; when it succeeded the result is
\* tools_used = [], confidence 0.8.
C6_FallbackIffTiersExhausted ==
    \A r \in Requests :
        Finished(r) =>
            /\ GenCalled(r, "fallback") <=>
                 /\ ~EarlierTierReturned(r)
                 /\ tool_analysis[r] # None /\ IsDict(tool_analysis[r])
                 /\ FormatHistory(context[r]).exc = "none"
            /\ FallbackResult(r)

\* C6, its case: KnowledgeBase reported failure, the fallback call was made
\* and succeeded.
C6_Witness ==
    \E r \in Requests :
        /\ ToolFailed(r, "KnowledgeBase")
        /\ GenSucceeded(r, "fallback")
        /\ Returned(r) /\ ret[r].value.confidence = 8000


\* The i-th call of request r is the tool-need analysis call, it returned a
\* text, and the text cannot be decoded into a value with the required fields.
UndecodableAnalysis(r, i) ==
    /\ calls[r][i].op = "gen" /\ calls[r][i].name = "analysis"
    /\ calls[r][i].ok
    /\ parse_json_response(calls[r][i].g.text, RequiredFields(agent[r])).exc # "none"

\* C7: after an undecodable analysis text the analysis in use has every flag
\* false and every value null, the request is not aborted, Calculator and
\* PhysicsConstants are never called, and the next call is KnowledgeBase
\* (the specialist stands at the knowledge tier until it makes it).
C7_AnalysisDefault ==
    \A r \in Requests : \A i \in 1..Len(calls[r]) :
        UndecodableAnalysis(r, i) =>
            /\ tool_analysis[r] # None /\ IsDict(tool_analysis[r])
            /\ \A k \in RequiredFields(agent[r]) \ {"reasoning"} :
                 DictGet(tool_analysis[r], k, JStr("")) \in {JBool(FALSE), JNull}
            /\ ~ToolCalled(r, "Calculator") /\ ~ToolCalled(r, "PhysicsConstants")
            /\ ~GenCalled(r, "tierA") /\ ~GenCalled(r, "tierB")
            /\ pc[r] \notin {"s_constants", "s_tierA", "s_calculator", "s_tierB"}
            /\ i < Len(calls[r]) => calls[r][i + 1].name = "KnowledgeBase"
            /\ (i = Len(calls[r]) /\ FormatHistory(context[r]).exc = "none") =>
                 pc[r] = "s_knowledge" /\ ~Finished(r)

\* C7, its case: an analysis text without a required field was received and
\* the request was answered from the knowledge tier.
C7_Witness ==
    \E r \in Requests :
        /\ Len(calls[r]) >= 1
        /\ \E i \in 1..Len(calls[r]) :
             UndecodableAnalysis(r, i) /\ calls[r][i].g.text.kind = "obj"
        /\ Returned(r) /\ ret[r].value.tools_used = <<"KnowledgeBase">>

\* The classification call of request r returned a text that cannot be
\* decoded into a value with the fields subject, confidence and reasoning.
UndecodableClassification(r) ==
    /\ Len(calls[r]) >= 1
    /\ calls[r][1].op = "gen" /\ calls[r][1].name = "classify"
    /\ calls[r][1].ok
    /\ parse_json_response(calls[r][1].g.text, ClassificationFields).exc # "none"

\* Error texts of the router that do not come from the classification.
LaterErrors ==
    {"none", "Failed to retrieve conversation", "Empty response from specialist agent"}

\* C8: after an undecodable classification text the classification in use is
\* subject "general", confidence 0.5, no error envelope is produced for this
\* reason, and the request is delegated to the Math agent.
C8_ClassificationDefault ==
    \A r \in Requests :
        UndecodableClassification(r) =>
            /\ analysis[r] # None /\ IsDict(analysis[r])
            /\ DictGet(analysis[r], "subject", JNull) = JStr("general")
            /\ DictGet(analysis[r], "confidence", JNull) = JNum(5000)
            /\ route[r] # None /\ route[r].agent_key = "math"
            /\ err[r] \in LaterErrors
            /\ agent[r] # "none" => agent[r] = "math"
            /\ \A j \in 1..Len(calls[r]) :
                 calls[r][j].name \in {"analysis", "fallback"} => agent[r] = "math"

\* C8, its case: the classification text was not decodable and the Math
\* agent made its analysis call.
C8_Witness ==
    \E r \in Requests :
        /\ UndecodableClassification(r)
        /\ calls[r][1].g.text.kind = "garbage"
        /\ GenCalled(r, "analysis") /\ agent[r] = "math"

\* The classification of request r is a record whose subject is a string.
ClassifiedSubject(r) ==
    /\ analysis[r] # None /\ IsDict(analysis[r])
    /\ DictGet(analysis[r], "subject", JNull).t = "str"

\* The case-normalized subject of the classification of request r.
NormalizedSubject(r) == Lower(DictGet(analysis[r], "subject", JNull).s)

\* C9: a subject with no alias and a numeric confidence c goes to math when
\* c < 0.7 and to physics when c >= 0.7: 0.7 to physics, 0.6999 to math.
C9_TieBreakThreshold ==
    \A r \in Requests :
        ( /\ ClassifiedSubject(r)
          /\ NormalizedSubject(r) \notin {"math", "mathematics", "physics"}
          /\ DictGet(analysis[r], "confidence", JNull).t = "num" ) =>
            LET c == DictGet(analysis[r], "confidence", JNull).n
            IN /\ route[r] # None
               /\ c < 7000 => route[r].agent_key = "math"
               /\ c >= 7000 => route[r].agent_key = "physics"
               /\ c = 7000 => route[r].agent_key = "physics"
               /\ c = 6999 => route[r].agent_key = "math"
               /\ agent[r] # "none" => agent[r] = route[r].agent_key

\* C9, its case: a subject with no alias and confidence exactly 0.7 was
\* handed to the Physics agent.
C9_Witness ==
    \E r \in Requests :
        /\ ClassifiedSubject(r) /\ NormalizedSubject(r) = "general"
        /\ DictGet(analysis[r], "confidence", JNull) = JNum(7000)
        /\ agent[r] = "physics" /\ GenCalled(r, "analysis")

\* C10: normalized subject math or mathematics selects the Math agent and
\* physics the Physics agent whatever the confidence is; the selected key is
\* always one of the two registered specialists.
C10_AliasSelection ==
    \A r \in Requests :
        /\ ClassifiedSubject(r) =>
             /\ NormalizedSubject(r) \in {"math", "mathematics"} =>
                  route[r] # None /\ route[r].agent_key = "math"
             /\ NormalizedSubject(r) = "physics" =>
                  route[r] # None /\ route[r].agent_key = "physics"
        /\ route[r] # None =>
             /\ route[r].agent_key \in {"math", "physics"}
             /\ agent[r] # "none" => agent[r] = route[r].agent_key

\* C10, its case: subject "Mathematics" with a confidence that is not a
\* number was handed to the Math agent.
C10_Witness ==
    \E r \in Requests :
        /\ ClassifiedSubject(r)
        /\ DictGet(analysis[r], "subject", JNull) = JStr("Mathematics")
        /\ DictGet(analysis[r], "confidence", JNull).t = "str"
        /\ agent[r] = "math" /\ GenCalled(r, "analysis")


\* The request came to the router and ended in the error envelope.
Enveloped(r) ==
    rq[r] # None /\ rq[r].entry = "tutor" /\ out[r] # None /\ out[r].kind = "envelope"

\* C12: a request of the router that ended in a failure other than the
\* service's has returned the error envelope, and the envelope's
\* conversation_id is the id the caller gave or, when the caller gave none,
\* the id of the conversation this request created (none when the creation
\* failed).
C12_EnvelopeCarriesConversation ==
    \A r \in Requests :
        /\ (pc[r] = "done" /\ rq[r].entry = "tutor" /\ err[r] # "none") => Enveloped(r)
        /\ Enveloped(r) =>
             IF rq[r].conversation_id # NoConv
             THEN out[r].conversation_id = rq[r].conversation_id
             ELSE IF err[r] = "Failed to create conversation"
             THEN out[r].conversation_id = NoConv
             ELSE /\ out[r].conversation_id = next_id - 1
                  /\ db[out[r].conversation_id].exists
                  /\ db[out[r].conversation_id].user_id = rq[r].user_id

\* C12, its case: a request without a conversation id created one and ended
\* in the envelope, which carries the new id.
C12_Witness ==
    \E r \in Requests :
        /\ Enveloped(r) /\ rq[r].conversation_id = NoConv
        /\ out[r].conversation_id # NoConv


\* The error handler of the router runs for request r in this step.
HandlerRuns(r) == pc[r] = "t_error" /\ pc'[r] # "t_error"

\* The store with the diagnostic message of request r appended to the
\* conversation the request is using.
WithDiagnostic(r) ==
    [db EXCEPT ![conversation_id[r]].messages =
        Append(@, [role |-> "system", content |-> err[r], user_id |-> rq[r].user_id,
                   agent |-> "None"])]

\* C13 as claimed: the handler appends exactly one system message carrying
\* the error text to the conversation whenever a conversation id is known,
\* and leaves the store alone when none is known.
C13_DiagnosticAppended ==
    [][\A r \in Requests :
          HandlerRuns(r) =>
              IF conversation_id[r] # NoConv THEN db' = WithDiagnostic(r) ELSE db' = db]_vars

\* C13 as amended: the handler appends at most one system message carrying
\* the error text, and only to a conversation that exists and belongs to the
\* user of the request; with no id known, or a conversation that is missing
\* or another user's, the store is left alone.
C13_DiagnosticAppendedToOwn ==
    [][\A r \in Requests :
          HandlerRuns(r) =>
              IF /\ conversation_id[r] # NoConv
                 /\ db[conversation_id[r]].exists
                 /\ db[conversation_id[r]].user_id = rq[r].user_id
              THEN db' = WithDiagnostic(r) \/ db' = db
              ELSE db' = db]_vars

\* C13, its case: the envelope was returned and the conversation of the
\* request ends with the system message that carries its error text.
C13_Witness ==
    \E r \in Requests :
        /\ Enveloped(r) /\ out[r].conversation_id # NoConv
        /\ LET ms == db[out[r].conversation_id].messages
           IN /\ Len(ms) >= 1
              /\ ms[Len(ms)].role = "system"
              /\ ms[Len(ms)].content = out[r].error
              /\ ms[Len(ms)].user_id = rq[r].user_id


\* TutorAgent.process_question is over for request r.
RouterDone(r) == pc[r] = "done" /\ rq[r].entry = "tutor"

\* Every generation call made for request r succeeded.
AllGenOk(r) == \A i \in 1..Len(calls[r]) : calls[r][i].op = "gen" => calls[r][i].ok

\* The stages whose generation call produces the response text.
ResponseStages == {"tierA", "tierB", "knowledge", "fallback"}

\* No response-producing call of request r returned the empty text.
NoEmptyResponse(r) ==
    \A i \in 1..Len(calls[r]) :
        (calls[r][i].op = "gen" /\ calls[r][i].name \in ResponseStages /\ calls[r][i].ok)
            => calls[r][i].g.text # ""

\* The conversation of request r was created or given and was retrieved, and
\* its classification is a record with a string subject and, when the
\* subject has no alias, a numeric confidence.
Routable(r) ==
    /\ conversation_id[r] # NoConv /\ context[r] # None
    /\ ClassifiedSubject(r)
    /\ NormalizedSubject(r) \notin {"math", "mathematics", "physics"} =>
         DictGet(analysis[r], "confidence", JNull).t \in {"num", "bool"}

\* C14 as claimed: when every generation call of a request succeeded the
\* router has returned a textual answer.
C14_HealthyServiceAnswers ==
    \A r \in Requests : (RouterDone(r) /\ AllGenOk(r)) => out[r].kind = "answer"

\* C14 as amended: when every generation call of a request succeeded the
\* router raises nothing; it returns a textual answer exactly when the
\* conversation could be created and retrieved, the classification is a
\* record with a string subject (and a numeric confidence when the subject
\* has no alias) and the response text generated is not empty; otherwise it
\* returns the error envelope.
C14_HealthyServiceAnswersRoutable ==
    \A r \in Requests :
        (RouterDone(r) /\ AllGenOk(r)) =>
            /\ out[r].kind \in {"answer", "envelope"}
            /\ out[r].kind = "answer" <=> (Routable(r) /\ NoEmptyResponse(r))

\* C14, its case: every generation call succeeded, Calculator reported
\* failure, and the request was answered all the same.
C14_Witness ==
    \E r \in Requests :
        /\ RouterDone(r) /\ AllGenOk(r) /\ out[r].kind = "answer"
        /\ ToolFailed(r, "Calculator")


\* The number of generation calls of request r made for the stages in S.
GenCount(r, S) ==
    Cardinality({i \in 1..Len(calls[r]) : calls[r][i].op = "gen" /\ calls[r][i].name \in S})

\* C15: a request makes at most one classification call, at most one
\* analysis call and at most one response-producing call (tier A, tier B,
\* the KnowledgeBase call or the fallback), in this order.
C15_OneResponseCall ==
    \A r \in Requests :
        /\ GenCount(r, {"classify"}) <= 1
        /\ GenCount(r, {"analysis"}) <= 1
        /\ GenCount(r, ResponseStages) <= 1
        /\ \A i, j \in 1..Len(calls[r]) :
             (i < j /\ calls[r][i].op = "gen" /\ calls[r][j].op = "gen") =>
                 /\ calls[r][j].name # "classify"
                 /\ calls[r][j].name = "analysis" => calls[r][i].name = "classify"

\* The fields of a result of the router (kind tells the answer from the
\* envelope and is no field of the dictionary).
AnswerFields ==
    {"kind", "response", "agent", "subject", "confidence", "conversation_id", "tools_used"}

\* The answer of request r is the specialist's response, agent and
\* tools_used with the classification's confidence and the conversation id
\* in use.
AnswerCarries(r) ==
    /\ DOMAIN out[r] = AnswerFields
    /\ Returned(r)
    /\ out[r].response = ret[r].value.response
    /\ out[r].agent = ret[r].value.agent
    /\ out[r].tools_used = ret[r].value.tools_used
    /\ out[r].confidence = DictGet(analysis[r], "confidence", JNull)
    /\ out[r].conversation_id = conversation_id[r]
    /\ out[r].conversation_id # NoConv

\* The router has returned an answer for request r.
Answered(r) == rq[r] # None /\ rq[r].entry = "tutor" /\ out[r] # None /\ out[r].kind = "answer"

\* C16 as claimed: an answer has exactly the six fields, the specialist's
\* response, agent and tools_used, and the subject and confidence of the
\* classification as the classification gave them.
C16_AnswerFields ==
    \A r \in Requests :
        Answered(r) =>
            /\ AnswerCarries(r)
            /\ JStr(out[r].subject) = DictGet(analysis[r], "subject", JNull)

\* C16 as amended: the same, the subject being the classification's subject
\* in lower case.
C16_AnswerFieldsLowerCase ==
    \A r \in Requests :
        Answered(r) =>
            /\ AnswerCarries(r)
            /\ LET subject == DictGet(analysis[r], "subject", JNull)
               IN /\ subject = JStr("math") => out[r].subject = "math"
                  /\ subject = JStr("Mathematics") => out[r].subject = "mathematics"
                  /\ subject = JStr("PHYSICS") => out[r].subject = "physics"
                  /\ subject = JStr("general") => out[r].subject = "general"
                  /\ subject \in {JStr("math"), JStr("Mathematics"), JStr("PHYSICS"),
                                  JStr("general")}

\* C16, its case: a classification with subject "PHYSICS" was answered by
\* the Physics agent with a tool, the answer carrying subject "physics".
C16_Witness ==
    \E r \in Requests :
        /\ Answered(r) /\ pc[r] = "done"
        /\ DictGet(analysis[r], "subject", JNull) = JStr("PHYSICS")
        /\ out[r].subject = "physics" /\ out[r].agent = "Physics Agent"
        /\ out[r].tools_used = <<"PhysicsConstants">>


\* The router reads the conversation of request r in this step and hands
\* its window to the specialist.
ReadsConversation(r) == pc[r] = "t_get" /\ pc'[r] = "s_analyze"

\* C11: the history handed to the specialist is the last min(n, 6) of the
\* n stored messages of the conversation, in the stored order and unaltered.
C11_LastSixInOrder ==
    [][\A r \in Requests :
          ReadsConversation(r) =>
              LET ms == db[conversation_id[r]].messages
                  n == Len(ms)
                  k == IF n < 6 THEN n ELSE 6
                  h == context'[r].conversation_history
              IN /\ Len(h) = k
                 /\ \A i \in 1..k : h[i] = ms[n - k + i]]_vars

\* C11, its case: a conversation of more than six messages was read and the
\* specialist got six of them, the oldest dropped.
C11_Witness ==
    \E r \in Requests :
        /\ context[r] # None
        /\ Len(db[1].messages) > 6 /\ conversation_id[r] = 1
        /\ Len(context[r].conversation_history) = 6
        /\ context[r].conversation_history[1].content # "m1"
        /\ context[r].conversation_history[6] = db[1].messages[Len(db[1].messages)]
        /\ GenCalled(r, "analysis")

\* The owner of conversation c before or after a step.
OwnerOf(c) == IF db[c].exists THEN db[c].user_id ELSE db'[c].user_id

\* C17: a step of a request changes (creates, appends to, deletes) only
\* conversations of the request's user; every stored message carries the
\* user_id of the conversation's owner; a get-conversation that succeeds
\* returns a conversation of the requesting user; and the history a
\* specialist gets from the router is read from a conversation of the
\* requesting user.
C17_ScopedByUser ==
    [][\A r \in Requests :
          pc'[r] # pc[r] =>
              /\ \A c \in ConvIds :
                   /\ db'[c] # db[c] => rq'[r].user_id = OwnerOf(c)
                   /\ db'[c].exists =>
                        \A i \in 1..Len(db'[c].messages) :
                            db'[c].messages[i].user_id = db'[c].user_id
              /\ (rq'[r].entry = "get" /\ http'[r].status = 200) =>
                   /\ http'[r].body.data.user_id = rq'[r].user_id
                   /\ http'[r].body.data = db[rq'[r].conversation_id]
              /\ ReadsConversation(r) =>
                   /\ db[conversation_id[r]].exists
                   /\ db[conversation_id[r]].user_id = rq[r].user_id
                   /\ \A i \in 1..Len(context'[r].conversation_history) :
                        context'[r].conversation_history[i].user_id = rq[r].user_id]_vars

\* C17, its case: user "u2" asked in conversation 1 of user "u1"; the
\* request ended without an answer and the conversation is as it was.
C17_Witness ==
    \E r \in Requests :
        /\ pc[r] = "done" /\ rq[r].entry = "ask"
        /\ rq[r].user_id = "u2" /\ rq[r].conversation_id = 1
        /\ err[r] = "Failed to retrieve conversation" /\ context[r] = None
        /\ http[r].status = 500
        /\ db[1] = StoredConversation(MaxStored)

\* C18: the history in the prompt of every tier A or tier B synthesis call
\* of a request is the history of the context the router gave this request.
C18_OwnHistoryInPrompt ==
    \A r \in Requests : \A i \in 1..Len(calls[r]) :
        (calls[r][i].op = "gen" /\ calls[r][i].name \in {"tierA", "tierB"}
           /\ context[r] # None) =>
            LET h == context[r].conversation_history
                lines == calls[r][i].hist.lines
            IN /\ calls[r][i].hist.header
               /\ Len(lines) = Len(h)
               /\ \A j \in 1..Len(h) : lines[j][2] = h[j].content

\* The messages of ms that have this role and this content.
Holding(ms, role, content) ==
    {i \in 1..Len(ms) : ms[i].role = role /\ ms[i].content = content}

\* C19: when two /ask requests on the same conversation have both returned
\* their answers, the conversation holds the two user messages and the two
\* assistant messages, each user message immediately followed by an
\* assistant message.
C19_TurnsStayTogether ==
    \A r1, r2 \in Requests :
        ( /\ r1 # r2
          /\ pc[r1] = "done" /\ pc[r2] = "done"
          /\ rq[r1].entry = "ask" /\ rq[r2].entry = "ask"
          /\ rq[r1].conversation_id = rq[r2].conversation_id
          /\ http[r1].status = 200 /\ http[r2].status = 200 ) =>
            LET ms == db[rq[r1].conversation_id].messages
            IN /\ Cardinality(Holding(ms, "user", Question)) = 2
               /\ Cardinality(Holding(ms, "assistant", "answer")) = 2
               /\ \A i \in Holding(ms, "user", Question) :
                    i < Len(ms) /\ ms[i + 1].role = "assistant"

\* What parse_json_response makes of the object alone.
BareOutcome(in) == parse_json_text(in.payload, in.required_fields)

\* C20: a JSON object given bare, in a json code fence or surrounded by
\* prose is parsed to the same outcome as the object alone, and every call
\* on the same text gives that outcome.
C20_WrappingInsensitive ==
    (parse_in # None /\ parse_in.wrapping # "none") =>
        \A i \in 1..Len(parse_out) : parse_out[i] = BareOutcome(parse_in)

\* C20, restricted to wrappings without braces: code fence, whitespace and
\* prose that holds no brace.
C20_BraceFreeWrappingInsensitive ==
    (parse_in # None /\ parse_in.wrapping \in {"bare", "blank", "fence", "prose"}) =>
        /\ \A i \in 1..Len(parse_out) : parse_out[i] = BareOutcome(parse_in)
        /\ BareOutcome(parse_in) =
              IF parse_in.required_fields \subseteq {"a", "b"} \cap
                     {parse_in.payload[k] : k \in 1..Len(parse_in.payload)}
              THEN Ret(json_loads(parse_in.payload))
              ELSE Raise("ValueError")

\* C20, its case: a fenced object was parsed twice and gave its record.
C20_Witness ==
    /\ parse_in # None /\ parse_in.wrapping = "fence"
    /\ Len(parse_out) = 2
    /\ parse_out[1].exc = "none" /\ parse_out[1].value.keys = {"a", "b"}
    /\ parse_out[2] = parse_out[1]

\* The text of this call holds its object first (after brace-free text at
\* most) and a brace somewhere in the text after the object.
ObjectThenBrace(in) ==
    /\ in.wrapping # "none"
    /\ \E k \in 1..Len(in.response) :
         /\ k + Len(in.payload) - 1 <= Len(in.response)
         /\ SubSeq(in.response, k, k + Len(in.payload) - 1) = in.payload
         /\ \A j \in 1..(k - 1) : in.response[j] \notin {"{", "}"}
         /\ \E j \in (k + Len(in.payload))..Len(in.response) : in.response[j] \in {"{", "}"}

\* C21: for a text that holds a valid JSON object followed by further text
\* with another brace (a second object, a stray closing brace), the call
\* yields what the first object alone yields.
C21_FirstBalancedBlock ==
    (parse_in # None /\ ObjectThenBrace(parse_in)) =>
        \A i \in 1..Len(parse_out) :
            parse_out[i] = parse_json_text(parse_in.payload, parse_in.required_fields)

\* C22: every outcome of parse_json_response is either a record (a JSON
\* object) that holds every required field, or the failure ValueError.
C22_RecordOrValueError ==
    \A i \in 1..Len(parse_out) :
        IF parse_out[i].exc = "none"
        THEN /\ IsDict(parse_out[i].value)
             /\ parse_in.required_fields \subseteq parse_out[i].value.keys
        ELSE parse_out[i].exc = "ValueError"

\* The calls made on one tool.
CallsOf(tool) == {i \in 1..Len(tool_calls) : tool_calls[i].tool = tool}
\* The field of a result that echoes the argument of the call.
EchoField(tool) ==
    CASE tool = "Calculator" -> "expression"
      [] tool = "KnowledgeBase" -> "query"
      [] OTHER -> "constant_name"

\* C23: every execute returns a result; a result with success false holds
\* an error message and the argument of the call.
C23_FailuresAreResults ==
    \A i \in 1..Len(tool_calls) :
        LET c == tool_calls[i]
        IN /\ "success" \in DOMAIN c.result
           /\ ~c.result.success =>
                /\ "error" \in DOMAIN c.result
                /\ EchoField(c.tool) \in DOMAIN c.result
                /\ c.result[EchoField(c.tool)] = c.arg

\* C24: Calculator.execute echoes the expression it was given; when the
\* evaluation fails the result is success false, the evaluator's error and
\* the expression, with no result and no result_type.
C24_CalculatorFailure ==
    \A i \in CallsOf("Calculator") :
        LET c == tool_calls[i]
        IN /\ "success" \in DOMAIN c.result
           /\ c.result.expression = c.arg
           /\ c.arg.s \in MalformedExpressions => ~c.result.success
           /\ ~c.result.success =>
                /\ DOMAIN c.result = {"success", "error", "expression"}
                /\ c.result.error = "SympifyError"

\* C24, its case: the malformed "x+" was evaluated and came back echoed.
C24_Witness ==
    \E i \in CallsOf("Calculator") :
        /\ tool_calls[i].arg = JStr("x+")
        /\ ~tool_calls[i].result.success
        /\ tool_calls[i].result.expression = JStr("x+")

\* The formatted value agrees with the tag of the result.
Consistent(result) ==
    CASE result.result_type \in {"integer"} -> result.result.t = "int"
      [] result.result_type = "decimal" -> result.result.t = "float"
      [] result.result_type = "fraction" ->
           result.result.t = "str" /\ result.result.parts = <<"exact", "approx", "decimal">>
      [] result.result_type = "expression" ->
           result.result.t = "dict" /\ result.result.keys = {"text", "latex"}
      [] result.result_type = "matrix" ->
           result.result.t = "str" /\ result.result.parts = <<"printed">>
      [] OTHER -> TRUE
ResultTypes == {"integer", "fraction", "decimal", "symbol", "expression", "matrix"}

NamedLookups ==
    {i \in CallsOf("PhysicsConstants") :
        tool_calls[i].arg.t = "str" /\ tool_calls[i].arg.s # ""}

\* C26: a lookup of a non-empty name that is not a key of the table fails
\* with the list of exactly the keys of the table; a lookup of a key
\* succeeds with the entry of that key.
C26_LookupByName ==
    \A i \in NamedLookups :
        LET c == tool_calls[i]
        IN IF c.arg.s \in constants
           THEN c.result.success /\ c.result.constant = Entry(c.arg.s)
           ELSE /\ ~c.result.success
                /\ c.result.available_constants.t = "list"
                /\ c.result.available_constants.keys = constants

\* C26, its case: an unknown name was looked up in the loaded table and a
\* key of it too.
C26_Witness ==
    /\ constants = LoadedConstants
    /\ \E i \in NamedLookups :
         tool_calls[i].arg.s = "zz" /\ ~tool_calls[i].result.success
    /\ \E i \in NamedLookups :
         tool_calls[i].arg.s = "c" /\ tool_calls[i].result.success

\* C27: a lookup without a name succeeds with one entry per key of the
\* table, each holding the description and the symbol of that key only; the
\* table of an absent data file is empty and so is its enumeration.
C27_Enumeration ==
    /\ constants \in {LoadedConstants, {}}
    /\ \A i \in CallsOf("PhysicsConstants") :
         tool_calls[i].arg = JNull =>
             LET res == tool_calls[i].result
             IN /\ res.success
                /\ res.available_constants.t = "dict"
                /\ res.available_constants.keys = constants
                /\ \A k \in constants :
                     /\ DOMAIN res.available_constants.val[k] = {"description", "symbol"}
                     /\ res.available_constants.val[k].description = Entry(k).description
                     /\ res.available_constants.val[k].symbol = Entry(k).symbol

\* C27, its case: the data file was absent, the tool was constructed with
\* an empty table and a lookup without a name gave the empty enumeration.
C27_Witness ==
    /\ constants = {}
    /\ \E i \in CallsOf("PhysicsConstants") :
         /\ tool_calls[i].arg = JNull
         /\ tool_calls[i].result.success
         /\ tool_calls[i].result.available_constants.keys = {}

\* The request has a context without prior messages.
NoPriorMessages(r) ==
    /\ context[r] # None
    /\ "conversation_history" \in context[r].keys
    /\ context[r].conversation_history = <<>>

\* C28: for a request without prior messages the history formatted into a
\* prompt is empty, header included.
C28_NoHistoryNoHeader ==
    \A r \in Requests :
        NoPriorMessages(r) =>
            \A i \in 1..Len(calls[r]) :
                (calls[r][i].op = "gen" /\ calls[r][i].name \in ResponseStages) =>
                    calls[r][i].hist = NoHistory

\* C29: the history formatted for the knowledge and fallback tiers of a
\* request holds one line per message of the request's window, in window
\* order, and in every formatted history the labels of consecutive lines
\* differ ("User", "Assistant", "User", ...).
C29_AlternatingLines ==
    \A r \in Requests : \A i \in 1..Len(calls[r]) :
        (calls[r][i].op = "gen" /\ calls[r][i].name \in ResponseStages) =>
            LET lines == calls[r][i].hist.lines
            IN /\ (calls[r][i].name \in {"knowledge", "fallback"} /\ context[r] # None) =>
                    /\ Len(lines) = Len(context[r].conversation_history)
                    /\ \A j \in 1..Len(lines) :
                         lines[j][2] = context[r].conversation_history[j].content
               /\ \A j \in 1..(Len(lines) - 1) : lines[j][1] # lines[j + 1][1]

\* A confidence between 0.0 and 1.0.
InRange(v) == v.t = "num" /\ v.n \in 0..10000

\* C30: the confidence of every classification result, and of every answer
\* the router returns, is a number between 0.0 and 1.0.
C30_ConfidenceInRange ==
    \A r \in Requests :
        /\ (analysis[r] # None /\ IsDict(analysis[r])) =>
               InRange(DictGet(analysis[r], "confidence", JNum(0)))
        /\ (out[r] # None /\ out[r].kind = "answer") => InRange(out[r].confidence)

\* The /ask handler has replied to request r.
Replied(r) == rq[r] # None /\ rq[r].entry = "ask" /\ http[r] # None /\ out[r] # None

\* C31: when GeminiAPIError came out of the router, the reply of the /ask
\* handler is the service error with status 503.
C31_ServiceErrorIs503 ==
    \A r \in Requests :
        (Replied(r) /\ out[r].kind = "raise" /\ out[r].exc = "GeminiAPIError") =>
            http[r].status = 503

\* C36: when the router returned an error envelope, the reply of the /ask
\* handler is an error reply that carries the conversation_id of the
\* envelope.
C36_ErrorReplyCarriesConversation ==
    \A r \in Requests :
        (Replied(r) /\ out[r].kind = "envelope") =>
            /\ http[r].status # 200
            /\ "conversation_id" \in DOMAIN http[r].body
            /\ http[r].body.conversation_id = out[r].conversation_id

\* The (tools_used, confidence) pairs of the returns of the specialists.
ResponsePairs ==
    {<<(<<"PhysicsConstants">>), 9500>>, <<(<<"Calculator">>), 9500>>,
     <<(<<"KnowledgeBase">>), 9000>>, <<(<<>>), 8000>>, <<(<<>>), 5000>>}

\* C32: a response returned by a specialist has one of the five pairs of
\* tools_used and confidence, names at most one tool, and a response of the
\* MathAgent never names PhysicsConstants.
C32_ResponsePairs ==
    \A r \in Requests :
        Returned(r) =>
            /\ <<ret[r].value.tools_used, ret[r].value.confidence>> \in ResponsePairs
            /\ Len(ret[r].value.tools_used) <= 1
            /\ agent[r] = "math" => "PhysicsConstants" \notin Names(ret[r].value.tools_used)

\* Each of the five pairs has been returned by a specialist.
PairReturned(r, p) ==
    Returned(r) /\ <<ret[r].value.tools_used, ret[r].value.confidence>> = p
C32_Witness ==
    \E r \in Requests :
        /\ agent[r] = "math"
        /\ PairReturned(r, <<(<<>>), 5000>>)
        /\ "error" \in ret[r].value.extra

\* Request r takes a step.
StepOf(r) == pc'[r] # pc[r]
\* The step appends a message to a conversation.
Appends == \E c \in ConvIds : Len(db'[c].messages) > Len(db[c].messages)
\* The router raised GeminiAPIError to the /ask handler of request r.
RouterRaised(r) ==
    /\ rq[r] # None /\ rq[r].entry = "ask"
    /\ out[r] # None /\ out[r].kind = "raise" /\ out[r].exc = "GeminiAPIError"

\* C33: no step of a request whose router raises GeminiAPIError appends a
\* message: a step of a request that appends one is a step of a request
\* whose router has not raised, and the outcome of the router, once there,
\* stays. When no other request has been taken, the store after such a
\* request is the one before it, but for the conversation the request
\* created, which holds no message.
C33_RaiseStoresNothing ==
    /\ [][\A r \in Requests :
            /\ (StepOf(r) /\ Appends) => (out'[r] # None /\ out'[r].kind # "raise")
            /\ out[r] # None => out'[r] = out[r]]_vars
    /\ [](\A r \in Requests :
            (RouterRaised(r) /\ \A q \in Requests \ {r} : pc[q] = "idle") =>
                /\ db[1] \in {StoredConversation(0), StoredConversation(MaxStored)}
                /\ \A c \in ConvIds \ {1} : db[c] \in {NoConversation, NewConversation(rq[r].user_id)})

\* The router of a request that created its conversation raised, the handler
\* has replied, and the conversation is there with no message.
C33_Witness ==
    \E r \in Requests :
        /\ RouterRaised(r) /\ pc[r] = "done" /\ http[r].status = 500
        /\ \A q \in Requests \ {r} : pc[q] = "idle"
        /\ rq[r].conversation_id = 2
        /\ db[2] = NewConversation(rq[r].user_id)

\* The store after message m has been appended to conversation c.
Appended(c, m) == [db EXCEPT ![c].messages = Append(@, m)]
\* Request r is an /ask request.
IsAsk(r) == rq[r] # None /\ rq[r].entry = "ask"

\* C34: the /ask handler appends the user message, and next the assistant
\* message, both after the router has returned; a request answered with
\* status 200 has gone through the two steps in this order, each appending
\* its one message, with the response of the specialist in hand and no system
\* message of its own. No other step of the request appends a message, so
\* the history read for the specialist, when no other request has been
\* taken, does not hold the question.
C34_TwoMessagesAfterResponse ==
    /\ [][\A r \in Requests :
            /\ (StepOf(r) /\ IsAsk(r) /\ Appends) =>
                   \/ /\ pc[r] = "a_user" /\ pc'[r] = "a_assistant"
                      /\ out[r] # None /\ out[r].kind # "raise"
                      /\ db' = Appended(rq[r].conversation_id,
                                        [role |-> "user", content |-> Question,
                                         user_id |-> rq[r].user_id, agent |-> "None"])
                   \/ /\ pc[r] = "a_assistant" /\ pc'[r] = "done"
                      /\ out[r].kind = "answer" /\ Returned(r)
                      /\ http'[r].status = 200
                      /\ db' = Appended(rq[r].conversation_id,
                                        [role |-> "assistant", content |-> out[r].response,
                                         user_id |-> rq[r].user_id, agent |-> out[r].agent])
                   \/ /\ pc[r] = "t_error"
                      /\ out'[r].kind = "envelope"
            /\ (IsAsk(r) /\ pc'[r] = "a_assistant" /\ pc[r] # pc'[r]) =>
                   (pc[r] = "a_user" /\ Appends)
            /\ (IsAsk(r) /\ http[r] = None /\ http'[r] # None /\ http'[r].status = 200) =>
                   (pc[r] = "a_assistant" /\ Appends)]_vars
    /\ [](\A r \in Requests :
            /\ (Replied(r) /\ http[r].status = 200) =>
                   (out[r].kind = "answer" /\ Returned(r) /\ err[r] = "none")
            /\ (IsAsk(r) /\ context[r] # None /\ \A q \in Requests \ {r} : pc[q] = "idle") =>
                   \A i \in 1..Len(context[r].conversation_history) :
                       context[r].conversation_history[i].content # Question)

\* A request on a new conversation is answered with status 200, and the
\* conversation holds the question and then the response.
C34_Witness ==
    \E r \in Requests :
        /\ Replied(r) /\ http[r].status = 200
        /\ \A q \in Requests \ {r} : pc[q] = "idle"
        /\ rq[r].conversation_id = 2
        /\ Len(db[2].messages) = 2
        /\ db[2].messages[1].role = "user" /\ db[2].messages[1].content = Question
        /\ db[2].messages[2].role = "assistant"
        /\ db[2].messages[2].content = out[r].response
        /\ context[r].conversation_history = <<>>

\* No request is in flight.
Quiescent == \A r \in Requests : pc[r] \in {"idle", "done"}

\* C35: with the /ask requests served one at a time, when no request is in
\* flight every stored user message of these requests is immediately
\* followed by an assistant message.
C35_NoOrphanedUserMessage ==
    Quiescent =>
        \A c \in ConvIds : \A i \in 1..Len(db[c].messages) :
            (db[c].messages[i].role = "user" /\ db[c].messages[i].content = Question) =>
                (i < Len(db[c].messages) /\ db[c].messages[i + 1].role = "assistant")

\* The conversation of request r is in the store under its user.
Retrievable(r) ==
    /\ conversation_id[r] \in ConvIds
    /\ db[conversation_id[r]].exists
    /\ db[conversation_id[r]].user_id = rq[r].user_id
\* A specialist has been invoked for request r.
SpecialistInvoked(r) ==
    \/ pc[r] \in {"s_analyze", "s_constants", "s_tierA", "s_calculator", "s_tierB",
                  "s_knowledge", "s_fallback", "t_finish"}
    \/ ret[r] # None
    \/ \E i \in 1..Len(calls[r]) : calls[r][i].op = "tool" \/ calls[r][i].name # "classify"

\* C37: the router enters the specialist from the retrieval alone, with
\* the conversation in the store under (conversation_id, user_id) at that
\* moment; a request whose retrieval failed has made the classification
\* call and no other, invokes no specialist, and ends in the error envelope.
C37_SpecialistAfterRetrieval ==
    /\ [][\A r \in Requests :
            (IsAsk(r) /\ pc'[r] = "s_analyze" /\ pc[r] # "s_analyze") =>
                (pc[r] = "t_get" /\ Retrievable(r) /\ context'[r] # None)]_vars
    /\ [](\A r \in Requests :
            /\ (IsAsk(r) /\ SpecialistInvoked(r)) => (context[r] # None /\ err[r] # "Failed to retrieve conversation")
            /\ (IsAsk(r) /\ err[r] = "Failed to retrieve conversation") =>
                   /\ ~SpecialistInvoked(r)
                   /\ Len(calls[r]) = 1 /\ calls[r][1].op = "gen" /\ calls[r][1].name = "classify"
                   /\ out[r] # None => (out[r].kind = "envelope"
                                          /\ out[r].error = "Failed to retrieve conversation"))

\* The retrieval of a request failed and the router has returned.
C37_Witness ==
    \E r \in Requests :
        /\ IsAsk(r) /\ err[r] = "Failed to retrieve conversation"
        /\ out[r] # None /\ out[r].kind = "envelope"
        /\ Len(calls[r]) = 1 /\ calls[r][1].name = "classify"
        /\ context[r] = None

\* The specialist of request r, called by the router, returned the apology
\* of its last handler: confidence 0.5 and the error attached.
Apologised(r) ==
    /\ rq[r] # None /\ rq[r].entry = "tutor"
    /\ Returned(r)
    /\ ret[r].value.confidence = 5000
    /\ "error" \in ret[r].value.extra

\* C38: the apology of a specialist leaves the router as an answer: the step
\* that takes it stores nothing and does not go to the error handler, and
\* the result is not an envelope, has no error field, carries the text of
\* the apology and the confidence of the classification.
C38_ApologyIsAnAnswer ==
    /\ [][\A r \in Requests :
            (Apologised(r) /\ pc[r] = "t_finish" /\ pc'[r] # "t_finish") =>
                (pc'[r] = "done" /\ db' = db /\ err'[r] = "none" /\ out'[r] # None)]_vars
    /\ [](\A r \in Requests :
            (Apologised(r) /\ out[r] # None) =>
                /\ out[r].kind = "answer"
                /\ "error" \notin DOMAIN out[r]
                /\ out[r].response = ret[r].value.response
                /\ out[r].tools_used = <<>>
                /\ out[r].confidence = route[r].confidence
                /\ err[r] = "none")

\* The router has returned the apology of a specialist, under a
\* classification whose confidence is not 0.5.
C38_Witness ==
    \E r \in Requests :
        /\ Apologised(r) /\ out[r] # None /\ out[r].kind = "answer"
        /\ out[r].response = "apology"
        /\ out[r].confidence = JNum(7000)

\* Every stage that makes a generation call.
GenStages == {"classify"} \cup SpecialistStages
\* The router was called for request r.
IsTutor(r) == rq[r] # None /\ rq[r].entry = "tutor"

\* C39: a call of the router makes at most 5 generation calls when the
\* MathAgent is chosen and at most 6 when the PhysicsAgent is chosen, and it
\* ends: with an answer that has a text, with the error envelope, or with
\* GeminiAPIError raised to the caller.
C39_BoundedAndTerminates ==
    /\ [](\A r \in Requests : IsTutor(r) =>
            /\ agent[r] = "none" => GenCount(r, GenStages) <= 1
            /\ agent[r] = "math" => GenCount(r, GenStages) <= 5
            /\ agent[r] = "physics" => GenCount(r, GenStages) <= 6
            /\ \A i \in 1..Len(calls[r]) : calls[r][i].op = "gen" => calls[r][i].name \in GenStages
            /\ pc[r] = "done" <=> out[r] # None
            /\ out[r] # None =>
                  \/ out[r].kind = "answer" /\ out[r].response # ""
                  \/ out[r].kind = "envelope" /\ "response" \notin DOMAIN out[r]
                  \/ out[r].kind = "raise" /\ out[r].exc = "GeminiAPIError")
    /\ \A r \in Requests :
          (IsTutor(r) /\ pc[r] = "t_ensure") ~> (IsTutor(r) /\ pc[r] = "done" /\ out[r] # None)

\* The router has returned after six generation calls of a request given
\* to the PhysicsAgent.
C39_Witness ==
    \E r \in Requests :
        /\ IsTutor(r) /\ pc[r] = "done" /\ out[r] # None
        /\ agent[r] = "physics"
        /\ GenCount(r, GenStages) = 6

====
